---- MODULE Spec2Model ----
(***************************************************************************)
(* Deletion reconciliation subsystem of the document API:                  *)
(*   - DeletionQueue (deletion_queue.py): durable retry queue with backoff *)
(*   - the delete endpoints of main.py that feed it                        *)
(*   - IndexStatusWorker (index_status_worker.py): index_status reconciler *)
(*   - VertexAIImporter (vertex_ai_importer.py): the external index gateway*)
(*                                                                         *)
(* Time is in seconds.  One tick of the deletion worker is modelled at its *)
(* await points: the SELECT of the batch, one _attempt_deletion per        *)
(* selected record, and the return of the counts.  A run of idle ticks     *)
(* (ticks whose SELECT returns nothing) changes nothing but the clock and  *)
(* is folded into one Sleep step.                                          *)
(*                                                                         *)
(* Seven specifications share the variables:                               *)
(*   Spec            the deletion worker and enqueue_deletion              *)
(*   SpecBacklog     the deletion worker started on a table of more rows   *)
(*                   than one tick selects                                 *)
(*   SpecForever     the deletion worker under fair scheduling, on an      *)
(*                   empty table or on the backlog                         *)
(*   SpecApi         upload, the delete endpoints and the reconciler tick  *)
(*   SpecReconciler  the index status worker loop with its clock, upload   *)
(*                   and the datastore; a tick is one step, its polls are  *)
(*                   independent of each other                             *)
(*   SpecWorkers     startup, shutdown and the two worker loops from the   *)
(*                   creation of their tasks to their exit                 *)
(*   SpecPeers       two instances of the deletion worker on one table     *)
(***************************************************************************)
EXTENDS Integers, Sequences, FiniteSets, TLC

VARIABLES
    now,        \* the database clock, NOW()
    queue,      \* table deletion_queue: queue id -> row
    nextId,     \* next value of gen_random_uuid() (ids are never reused)
    pc,         \* position of the deletion worker loop
    pending,    \* rows fetched by the running tick and not yet attempted
    counts,     \* succeeded / failed / skipped of the running tick
    calls,      \* queue id -> number of gateway delete calls made for it
    last,       \* the last operation performed and what it observed
    collection, \* the collections row exists
    docs,       \* table documents: document id -> row
    nextDoc,    \* next document id (one per uploaded file, never reused)
    blobs,      \* the GCS bucket: blob names present
    index,      \* the Vertex AI datastore: document id -> state of its record
    req,        \* the last request or reconciler tick and what it observed
    running,    \* worker -> its self.running flag
    rpc,        \* position of the index status worker loop
    life,       \* what startup, stop and shutdown have done so far
    peer        \* a second instance of the deletion worker: its tick

queueVars == <<queue, nextId, calls>>
workerVars == <<now, pc, pending, counts, last>>
apiVars == <<collection, docs, nextDoc, blobs, index, req>>
loopVars == <<running, rpc, life>>
peerVars == <<peer>>
vars == <<now, queue, nextId, pc, pending, counts, calls, last,
          collection, docs, nextDoc, blobs, index, req, running, rpc, life,
          peer>>

----------------------------------------------------------------------------
(* Bounds of the model *)

MaxEnqueues == 2        \* enqueue_deletion calls in one behaviour
MaxNow == 29400         \* the clock stops advancing past this value
MaxDocs == 1            \* distinct vertex_ai_doc_id values
MaxEnqueueNow == 0      \* enqueue_deletion is called up to this time ...
LateEnqueueFrom == 29100 \* ... or from this time on (an entry can be exhausted by then)
MaxClock == 721           \* the index status worker is followed up to this time
MaxRaises == 1            \* ticks of one worker that end in a store error
MaxStored == 101         \* rows the queue table holds when a worker starts on a backlog
MaxArrivals == 1          \* entries that arrive while the worker is followed forever

(* Program constants *)

DefaultMaxAttempts == 10
BatchLimit == 100
IntervalSeconds == 60
MaxDelaySeconds == 28800

DocIds == 1..MaxDocs
UserIds == {"u1"}
Requesters == {"u1", "u2"}
NULL == "NULL"
NoTime == -1             \* a NULL timestamp

----------------------------------------------------------------------------
(* The external index gateway as the queue sees it: delete_document        *)
(* returns (True, msg), returns (False, str(GoogleAPIError)), or lets an   *)
(* exception that is not a GoogleAPIError escape.  Every GoogleAPIError    *)
(* other than a 404, retryable (503) or not (400), reaches the caller the  *)
(* same way, as (False, message) with a message that is not a not-found    *)
(* message; MsgTransient stands for all of them.                           *)

MsgDeleted == "Document deleted from Vertex AI Search"
MsgNotFound == "404 Document not found"
MsgDoesNotExist == "Document Does Not Exist"
MsgTransient == "503 Service unavailable"
MsgException == "connection reset"
MsgMaxRetries == "Max retries reached. Document never appeared in Vertex AI."

GatewayOutcomes ==
    { [kind |-> "return", success |-> TRUE,  message |-> MsgDeleted],
      [kind |-> "return", success |-> FALSE, message |-> MsgNotFound],
      [kind |-> "return", success |-> FALSE, message |-> MsgTransient],
      [kind |-> "raise",  success |-> FALSE, message |-> MsgException] }

\* "404" in message or "does not exist" in message.lower()
IsNotFoundMessage(message) ==
    \/ message \in {MsgNotFound}
    \/ message \in {MsgDoesNotExist}

----------------------------------------------------------------------------
(* deletion_queue.py *)

Min(a, b) == IF a <= b THEN a ELSE b

\* the backoff with the exponent of the exponential part off by one
delay_seconds_ExponentOffByOne(attempt_count) ==
    IF attempt_count = 1 THEN 120
    ELSE IF attempt_count = 2 THEN 180
    ELSE IF attempt_count = 3 THEN 300
    ELSE IF attempt_count = 4 THEN 600
    ELSE Min(900 * (2 ^ (attempt_count - 4)), MaxDelaySeconds)

\* _schedule_retry, the delay for the post-increment attempt_count
delay_seconds(attempt_count) ==
    IF attempt_count = 1 THEN 120
    ELSE IF attempt_count = 2 THEN 180
    ELSE IF attempt_count = 3 THEN 300
    ELSE IF attempt_count = 4 THEN 600
    ELSE Min(900 * (2 ^ (attempt_count - 5)), MaxDelaySeconds)

\* the exhaustion test with > in place of >=
Exhausted_Strict(attempt_count, max_attempts) == attempt_count > max_attempts

\* attempt_count >= max_attempts
Exhausted(attempt_count, max_attempts) == attempt_count >= max_attempts

\* the retry scheduled with the delay subtracted from the clock
_schedule_retry_Backdated(q, queue_id, attempt_count, error_msg, t) ==
    IF queue_id \in DOMAIN q
    THEN [q EXCEPT ![queue_id].attempt_count = attempt_count,
                   ![queue_id].next_retry_at = t - delay_seconds(attempt_count),
                   ![queue_id].last_error = error_msg]
    ELSE q

\* the retry scheduled without storing the new attempt_count
_schedule_retry_CountKept(q, queue_id, attempt_count, error_msg, t) ==
    IF queue_id \in DOMAIN q
    THEN [q EXCEPT ![queue_id].next_retry_at = t + delay_seconds(attempt_count),
                   ![queue_id].last_error = error_msg]
    ELSE q

\* UPDATE ... SET attempt_count, next_retry_at = NOW() + delay, last_error WHERE id
_schedule_retry(q, queue_id, attempt_count, error_msg, t) ==
    IF queue_id \in DOMAIN q
    THEN [q EXCEPT ![queue_id].attempt_count = attempt_count,
                   ![queue_id].next_retry_at = t + delay_seconds(attempt_count),
                   ![queue_id].last_error = error_msg]
    ELSE q

\* the completion deleting every row of the same target instead of the one row
_mark_completed_ByTarget(q, queue_id) ==
    IF queue_id \in DOMAIN q
    THEN LET keep == {i \in DOMAIN q : q[i].vertex_ai_doc_id # q[queue_id].vertex_ai_doc_id}
         IN  [i \in keep |-> q[i]]
    ELSE q

\* the completion keeping the row with a status instead of deleting it
_mark_completed_Tombstone(q, queue_id) ==
    IF queue_id \in DOMAIN q
    THEN [q EXCEPT ![queue_id].status = "completed"]
    ELSE q

\* DELETE FROM deletion_queue WHERE id
_mark_completed(q, queue_id) ==
    [i \in DOMAIN q \ {queue_id} |-> q[i]]

\* the entry marked failed with its next_retry_at cleared
_mark_failed_RetryCleared(q, queue_id, attempt_count, error_msg) ==
    IF queue_id \in DOMAIN q
    THEN [q EXCEPT ![queue_id].status = "failed",
                   ![queue_id].attempt_count = attempt_count,
                   ![queue_id].next_retry_at = NoTime,
                   ![queue_id].last_error = error_msg]
    ELSE q

\* UPDATE ... SET status = 'failed', attempt_count, last_error WHERE id
_mark_failed(q, queue_id, attempt_count, error_msg) ==
    IF queue_id \in DOMAIN q
    THEN [q EXCEPT ![queue_id].status = "failed",
                   ![queue_id].attempt_count = attempt_count,
                   ![queue_id].last_error = error_msg]
    ELSE q

\* _attempt_deletion without its except branch: a raised gateway error
\* leaves the row as it was
_attempt_deletion_RaiseUnhandled(q, record, o, t) ==
    LET attempt_count == record.attempt_count + 1
        max_attempts == record.max_attempts
    IN  IF o.kind = "return"
        THEN IF o.success
             THEN [queue |-> _mark_completed(q, record.id), result |-> "succeeded"]
             ELSE IF IsNotFoundMessage(o.message)
                  THEN IF Exhausted(attempt_count, max_attempts)
                       THEN [queue |-> _mark_failed(q, record.id, attempt_count, MsgMaxRetries),
                             result |-> "failed"]
                       ELSE [queue |-> _schedule_retry(q, record.id, attempt_count, o.message, t),
                             result |-> "skipped"]
                  ELSE [queue |-> _schedule_retry(q, record.id, attempt_count, o.message, t),
                        result |-> "skipped"]
        ELSE [queue |-> q, result |-> "skipped"]

\* _attempt_deletion returning "skipped" for the entry it gives up on
_attempt_deletion_FailedAsSkipped(q, record, o, t) ==
    LET attempt_count == record.attempt_count + 1
        max_attempts == record.max_attempts
    IN  IF o.kind = "return"
        THEN IF o.success
             THEN [queue |-> _mark_completed(q, record.id), result |-> "succeeded"]
             ELSE IF IsNotFoundMessage(o.message)
                  THEN IF Exhausted(attempt_count, max_attempts)
                       THEN [queue |-> _mark_failed(q, record.id, attempt_count, MsgMaxRetries),
                             result |-> "skipped"]
                       ELSE [queue |-> _schedule_retry(q, record.id, attempt_count, o.message, t),
                             result |-> "skipped"]
                  ELSE [queue |-> _schedule_retry(q, record.id, attempt_count, o.message, t),
                        result |-> "skipped"]
        ELSE IF Exhausted(attempt_count, max_attempts)
             THEN [queue |-> _mark_failed(q, record.id, attempt_count, o.message),
                   result |-> "skipped"]
             ELSE [queue |-> _schedule_retry(q, record.id, attempt_count, o.message, t),
                   result |-> "skipped"]

\* _attempt_deletion: the new table and the returned string, for one fetched
\* record and one outcome o of the gateway call
_attempt_deletion(q, record, o, t) ==
    LET attempt_count == record.attempt_count + 1
        max_attempts == record.max_attempts
    IN  IF o.kind = "return"
        THEN IF o.success
             THEN [queue |-> _mark_completed(q, record.id), result |-> "succeeded"]
             ELSE IF IsNotFoundMessage(o.message)
                  THEN IF Exhausted(attempt_count, max_attempts)
                       THEN [queue |-> _mark_failed(q, record.id, attempt_count, MsgMaxRetries),
                             result |-> "failed"]
                       ELSE [queue |-> _schedule_retry(q, record.id, attempt_count, o.message, t),
                             result |-> "skipped"]
                  ELSE [queue |-> _schedule_retry(q, record.id, attempt_count, o.message, t),
                        result |-> "skipped"]
        ELSE IF Exhausted(attempt_count, max_attempts)
             THEN [queue |-> _mark_failed(q, record.id, attempt_count, o.message),
                   result |-> "failed"]
             ELSE [queue |-> _schedule_retry(q, record.id, attempt_count, o.message, t),
                   result |-> "skipped"]

\* the eligibility test without the status filter
IsDue_AnyStatus(row, t) == row.next_retry_at <= t

\* the eligibility test without the time filter
IsDue_AnyTime(row, t) == row.status = "pending"

\* WHERE status = 'pending' AND next_retry_at <= NOW()
IsDue(row, t) == row.status = "pending" /\ row.next_retry_at <= t

DueIds(q, t) == {i \in DOMAIN q : IsDue(q[i], t)}

\* the median of a set of at least two timestamps
Median(keys) ==
    CHOOSE k \in keys : Cardinality({j \in keys : j < k}) = Cardinality(keys) \div 2

RECURSIVE OrderedRows(_, _)
\* ORDER BY next_retry_at: the sequences of the rows ids in ascending
\* next_retry_at (rows with equal next_retry_at come in any order); the rows
\* below the median key come first, then the others.  keys and lo are bound
\* as elements of one-element sets, so that each is computed once
OrderedRows(q, ids) ==
    IF ids = {}
    THEN {<<>>}
    ELSE UNION {
           IF Cardinality(keys) = 1
           THEN UNION { {<<d>> \o s : s \in OrderedRows(q, ids \ {d})} : d \in ids }
           ELSE UNION {
                  {a \o b : a \in OrderedRows(q, lo), b \in OrderedRows(q, ids \ lo)} :
                  lo \in { UNION { {d \in ids : q[d].next_retry_at < mid} :
                                   mid \in {Median(keys)} } } } :
           keys \in { {q[d].next_retry_at : d \in ids} } }

\* the SELECT with one more filter, AND attempt_count = 0
SelectPending_FreshOnly(q, t) ==
    LET due == {i \in DueIds(q, t) : q[i].attempt_count = 0}
    IN  {SubSeq(s, 1, Min(Cardinality(due), BatchLimit)) : s \in OrderedRows(q, due)}

\* the SELECT without its LIMIT
SelectPending_Unlimited(q, t) ==
    LET due == DueIds(q, t)
    IN  {SubSeq(s, 1, Cardinality(due)) : s \in OrderedRows(q, due)}

\* ORDER BY next_retry_at LIMIT 100: every sequence the SELECT may return
SelectPending(q, t) ==
    LET due == DueIds(q, t)
    IN  {SubSeq(s, 1, Min(Cardinality(due), BatchLimit)) : s \in OrderedRows(q, due)}

\* the statistics with the total taken over the pending rows only
get_queue_stats_TotalOfPending(q) ==
    [pending |-> Cardinality({i \in DOMAIN q : q[i].status = "pending"}),
     failed  |-> Cardinality({i \in DOMAIN q : q[i].status = "failed"}),
     total   |-> Cardinality({i \in DOMAIN q : q[i].status = "pending"})]

\* get_queue_stats: COUNT(*) FILTER (WHERE status = 'pending'),
\* COUNT(*) FILTER (WHERE status = 'failed'), COUNT(*)
get_queue_stats(q) ==
    [pending |-> Cardinality({i \in DOMAIN q : q[i].status = "pending"}),
     failed  |-> Cardinality({i \in DOMAIN q : q[i].status = "failed"}),
     total   |-> Cardinality(DOMAIN q)]

\* dict(record) of a fetched row
Fetched(q, i) ==
    [id |-> i, vertex_ai_doc_id |-> q[i].vertex_ai_doc_id,
     attempt_count |-> q[i].attempt_count, max_attempts |-> q[i].max_attempts]

\* the original_filename the handlers pass for document doc
OriginalFilename(doc) == doc

NewRow(doc, user, t) ==
    [vertex_ai_doc_id |-> doc, user_id |-> user,
     original_filename |-> OriginalFilename(doc),
     attempt_count |-> 0, max_attempts |-> DefaultMaxAttempts,
     next_retry_at |-> t, created_at |-> t,
     last_error |-> NULL, status |-> "pending"]

\* the insert replacing the rows already queued for the same target
InsertRow_Replacing(q, i, doc, user, t) ==
    LET keep == {j \in DOMAIN q : q[j].vertex_ai_doc_id # doc}
    IN  [j \in keep \cup {i} |-> IF j = i THEN NewRow(doc, user, t) ELSE q[j]]

\* INSERT INTO deletion_queue (vertex_ai_doc_id, user_id, original_filename)
InsertRow(q, i, doc, user, t) ==
    [j \in DOMAIN q \cup {i} |-> IF j = i THEN NewRow(doc, user, t) ELSE q[j]]

NoOp == [op |-> "none", id |-> 0, vertex_ai_doc_id |-> 0, attempt_count |-> 0, max_attempts |-> 0,
         outcome |-> [kind |-> "none", success |-> FALSE, message |-> NULL],
         result |-> "none"]

ZeroCounts == [succeeded |-> 0, failed |-> 0, skipped |-> 0]

\* {completed, failed, still_indexing} of a reconciler tick
ZeroStats == [completed |-> 0, failed |-> 0, still_indexing |-> 0]

NoReq == [op |-> "none", doc |-> 0, user |-> NULL, http |-> 0,
          index_status |-> NULL, matched |-> FALSE, vertex_ai_deleted |-> FALSE,
          gateway_failed |-> FALSE, message |-> NULL, removed |-> {},
          vertex_ai_verification |-> {},
          vertex_ai_deletions_queued |-> 0, gateway_failures |-> {},
          stats |-> ZeroStats, fetched |-> {}, polled |-> {}, answers |-> {}]

\* the second instance before it is started
NoPeer == [pc |-> "idle", pending |-> <<>>, counts |-> ZeroCounts, last |-> NoOp]

\* the two background workers main.py creates
Workers == {"deletion_queue", "index_status_worker"}

\* nothing stopped, shut down or raised yet.  stopped is where the loop of a
\* worker was when stop_background_worker found it running ("no": it did
\* not), left the records of the batch not yet attempted at that moment,
\* wakes the returns of asyncio.sleep since, raised the ticks that ended in an
\* exception, early whether stop_background_worker was called on a created
\* task whose body has not run yet
NoLife == [shutdown |-> FALSE,
           stopped |-> [w \in Workers |-> "no"],
           early |-> [w \in Workers |-> FALSE],
           left |-> 0,
           wakes |-> [w \in Workers |-> 0],
           raised |-> [w \in Workers |-> 0]]

----------------------------------------------------------------------------
Init ==
    /\ now = 0
    /\ queue = <<>>
    /\ nextId = 1
    /\ pc = "tick"
    /\ pending = <<>>
    /\ counts = ZeroCounts
    /\ calls = <<>>
    /\ last = NoOp
    /\ collection = TRUE
    /\ docs = <<>>
    /\ nextDoc = 1
    /\ blobs = {}
    /\ index = [d \in DocIds |-> "absent"]
    /\ req = NoReq
    /\ running = [w \in Workers |-> TRUE]
    /\ rpc = "tick"
    /\ life = NoLife
    /\ peer = NoPeer

\* the times at which the request handlers call enqueue_deletion
EnqueueWindow(t) == t <= MaxEnqueueNow \/ t >= LateEnqueueFrom

\* enqueue_deletion(vertex_ai_doc_id, user_id, original_filename)
enqueue_deletion(doc, user) ==
    /\ nextId <= MaxEnqueues
    /\ EnqueueWindow(now)
    /\ queue' = InsertRow(queue, nextId, doc, user, now)
    /\ calls' = [j \in DOMAIN calls \cup {nextId} |-> IF j = nextId THEN 0 ELSE calls[j]]
    /\ nextId' = nextId + 1
    /\ last' = [NoOp EXCEPT !.op = "enqueue", !.id = nextId, !.vertex_ai_doc_id = doc]
    /\ UNCHANGED <<now, pc, pending, counts>>
    /\ UNCHANGED apiVars
    /\ UNCHANGED loopVars
    /\ UNCHANGED peerVars

\* process_pending_deletions: the SELECT
TickSelect ==
    /\ pc = "tick"
    /\ \E s \in SelectPending(queue, now) :
         pending' = [k \in 1..Len(s) |-> Fetched(queue, s[k])]
    /\ counts' = ZeroCounts
    /\ pc' = "processing"
    /\ last' = [NoOp EXCEPT !.op = "select"]
    /\ UNCHANGED <<now, queue, nextId, calls>>
    /\ UNCHANGED apiVars
    /\ UNCHANGED loopVars
    /\ UNCHANGED peerVars

\* process_pending_deletions: one iteration of the for loop
Attempt ==
    /\ pc = "processing"
    /\ pending # <<>>
    /\ LET record == Head(pending)
       IN  \E o \in GatewayOutcomes :
             LET r == _attempt_deletion(queue, record, o, now)
             IN  /\ queue' = r.queue
                 /\ counts' = [counts EXCEPT ![r.result] = @ + 1]
                 /\ calls' = [j \in DOMAIN r.queue |-> IF j = record.id THEN calls[j] + 1 ELSE calls[j]]
                 /\ last' = [op |-> "attempt", id |-> record.id,
                             vertex_ai_doc_id |-> record.vertex_ai_doc_id,
                             attempt_count |-> record.attempt_count + 1,
                             max_attempts |-> record.max_attempts,
                             outcome |-> o, result |-> r.result]
    /\ pending' = Tail(pending)
    /\ UNCHANGED <<now, nextId, pc>>
    /\ UNCHANGED apiVars
    /\ UNCHANGED loopVars
    /\ UNCHANGED peerVars

\* process_pending_deletions: return {succeeded, failed, skipped}
TickDone ==
    /\ pc = "processing"
    /\ pending = <<>>
    /\ pc' = "sleeping"
    /\ last' = [NoOp EXCEPT !.op = "done"]
    /\ UNCHANGED <<now, queue, nextId, pending, counts, calls>>
    /\ UNCHANGED apiVars
    /\ UNCHANGED loopVars
    /\ UNCHANGED peerVars

\* the pending rows that are not due yet
Waiting(q, t) == {i \in DOMAIN q : q[i].status = "pending" /\ q[i].next_retry_at > t}

\* number of sleep intervals until the next tick that selects something
IdleIntervals(q, t) ==
    IF DueIds(q, t + IntervalSeconds) # {} \/ Waiting(q, t) = {}
    THEN 1
    ELSE CHOOSE k \in 1..(MaxDelaySeconds \div IntervalSeconds) :
           /\ DueIds(q, t + k * IntervalSeconds) # {}
           /\ \A j \in 1..(k - 1) : DueIds(q, t + j * IntervalSeconds) = {}

\* start_background_worker: await asyncio.sleep(interval_seconds)
Sleep ==
    /\ pc = "sleeping"
    /\ DueIds(queue, now) # {} \/ Waiting(queue, now) # {}
    /\ now + IdleIntervals(queue, now) * IntervalSeconds <= MaxNow
    /\ now' = now + IdleIntervals(queue, now) * IntervalSeconds
    /\ pc' = "tick"
    /\ last' = [NoOp EXCEPT !.op = "sleep"]
    /\ UNCHANGED <<queue, nextId, pending, counts, calls>>
    /\ UNCHANGED apiVars
    /\ UNCHANGED loopVars
    /\ UNCHANGED peerVars

Next ==
    \/ \E doc \in DocIds, user \in UserIds : enqueue_deletion(doc, user)
    \/ TickSelect
    \/ Attempt
    \/ TickDone
    \/ Sleep

Spec == Init /\ [][Next]_vars

----------------------------------------------------------------------------
(* The worker started on a backlog: the table outlives the process, and    *)
(* the first tick finds the rows left there, enqueued one a second; row    *)
(* `retried`, if any, has one failed attempt behind it.  The gateway is up *)
(* again: every attempt of this specification succeeds.                    *)

StoredBacklog(retried) ==
    [i \in 1..MaxStored |->
       IF i = retried
       THEN [NewRow(1, "u1", i) EXCEPT !.attempt_count = 1,
                                       !.next_retry_at = i + delay_seconds(1),
                                       !.last_error = MsgTransient]
       ELSE NewRow(1, "u1", i)]

\* the times of the first tick: part of the backlog due, all fresh rows
\* due, every row due
BacklogStarts == {MaxStored \div 2, MaxStored, MaxStored + delay_seconds(1)}

InitBacklog ==
    /\ now \in BacklogStarts
    /\ \E retried \in {0, 1} : queue = StoredBacklog(retried)
    /\ nextId = MaxStored + 1
    /\ pc = "tick"
    /\ pending = <<>>
    /\ counts = ZeroCounts
    /\ calls = [i \in 1..MaxStored |-> 0]
    /\ last = NoOp
    /\ collection = TRUE
    /\ docs = <<>>
    /\ nextDoc = 1
    /\ blobs = {}
    /\ index = [d \in DocIds |-> "absent"]
    /\ req = NoReq
    /\ running = [w \in Workers |-> TRUE]
    /\ rpc = "tick"
    /\ life = NoLife
    /\ peer = NoPeer

NextBacklog ==
    \/ TickSelect
    \/ Attempt /\ last'.outcome.success
    \/ TickDone
    \/ Sleep

SpecBacklog == InitBacklog /\ [][NextBacklog]_vars

----------------------------------------------------------------------------
(* The worker for ever: it starts on an empty table or on the backlog, its  *)
(* ticks and sleeps keep happening, and up to MaxArrivals entries arrive on *)
(* the empty table, all for one document: the selection reads status and    *)
(* next_retry_at only, never vertex_ai_doc_id.                              *)
(* While the table holds more rows than the enqueues of one behaviour can   *)
(* put there, the gateway is up and every attempt succeeds; after that      *)
(* every outcome is possible.                                               *)

InitForever == Init \/ InitBacklog

\* one iteration of the for loop, the gateway answering as described above
AttemptForever ==
    /\ Attempt
    /\ Cardinality(DOMAIN queue) > MaxEnqueues => last'.outcome.success

NextForever ==
    \/ \E user \in UserIds : enqueue_deletion(MaxDocs, user) /\ nextId <= MaxArrivals
    \/ TickSelect
    \/ AttemptForever
    \/ TickDone
    \/ Sleep

SpecForever ==
    /\ InitForever
    /\ [][NextForever]_vars
    /\ WF_vars(TickSelect)
    /\ WF_vars(AttemptForever)
    /\ WF_vars(TickDone)
    /\ WF_vars(Sleep)

----------------------------------------------------------------------------
(* vertex_ai_importer.py: the gateway as the request handlers see it *)

MsgNotFoundByUri == "Document not found (may be already deleted or not yet indexed)"
MsgDeletedByUri == "Document deleted (Vertex AI ID)"
OperationName == "Created 1 documents with metadata"

\* the GCS URI and the blob name of document d (one blob per document)
GcsUri(d) == d

\* list_documents: the records the listing returns; [] on a GoogleAPIError
ListOutcomes == {"listed", "error"}
list_documents(idx, l) ==
    IF l = "listed" THEN {d \in DOMAIN idx : idx[d] = "present"} ELSE {}

\* delete_document_by_uri: (success, message), the datastore afterwards, and
\* whether a record with that URI was found; o is the outcome of the inner
\* delete_document call, whose exceptions are caught and returned as failures
delete_document_by_uri(idx, gcs_uri, l, o) ==
    LET all_docs == list_documents(idx, l)
        matching == {d \in all_docs : GcsUri(d) = gcs_uri}
    IN  IF matching = {}
        THEN [index |-> idx, success |-> TRUE, message |-> MsgNotFoundByUri,
              matched |-> FALSE]
        ELSE LET actual_id == CHOOSE d \in matching : TRUE
             IN  IF o.kind = "return" /\ o.success
                 THEN [index |-> [idx EXCEPT ![actual_id] = "absent"],
                       success |-> TRUE, message |-> MsgDeletedByUri, matched |-> TRUE]
                 ELSE [index |-> idx, success |-> FALSE, message |-> o.message,
                       matched |-> TRUE]

\* client.get_document inside get_document: it answers (the document, or a
\* not-found GoogleAPIError), raises another GoogleAPIError, or raises an
\* exception that get_document does not catch
VerifyOutcomes == {"answered", "error", "raise"}

\* get_document: exists, for the outcomes it returns on
get_document(idx, vertex_ai_doc_id, v) ==
    IF v = "answered" THEN idx[vertex_ai_doc_id] = "present" ELSE FALSE

\* verify_deletion: deleted
verify_deletion(idx, vertex_ai_doc_id, v) == ~get_document(idx, vertex_ai_doc_id, v)

\* gcs_uploader.delete_file: True, False on GoogleCloudError, or another exception
GcsOutcomes == {"deleted", "error", "raise"}
delete_file(b, blob_name, g) == IF g = "deleted" THEN b \ {blob_name} ELSE b

\* create_document_with_id: (True, msg) or (False, msg)
CreateOutcomes == {"created", "failed"}

\* operations_client.get_operation as check_operation_status sees it
PollOutcomes == {"done", "done_error", "running", "raise_not_found", "raise_other"}

----------------------------------------------------------------------------
(* database.py *)

\* insert_document: the row, index_status from the operation id
NewDocument(d, user, import_operation_id, t) ==
    [user_id |-> user, vertex_ai_doc_id |-> d, gcs_uri |-> GcsUri(d),
     gcs_blob_name |-> GcsUri(d), import_operation_id |-> import_operation_id,
     index_status |-> IF import_operation_id # NULL THEN "indexing" ELSE "pending",
     index_completed_at |-> NoTime, upload_date |-> t]

\* get_document_by_id: the columns its SELECT names (index_status is not one)
get_document_by_id(rows, d) ==
    [user_id |-> rows[d].user_id, vertex_ai_doc_id |-> rows[d].vertex_ai_doc_id,
     gcs_uri |-> rows[d].gcs_uri, gcs_blob_name |-> rows[d].gcs_blob_name,
     upload_date |-> rows[d].upload_date]

\* dict.get(key, default)
DictGet(dict, key, default) == IF key \in DOMAIN dict THEN dict[key] ELSE default

\* DELETE FROM documents WHERE id
DeleteRows(rows, ds) == [d \in DOMAIN rows \ ds |-> rows[d]]

\* update_document_index_status
update_document_index_status(rows, d, index_status, index_completed_at) ==
    IF d \notin DOMAIN rows THEN rows
    ELSE IF index_completed_at # NoTime
    THEN [rows EXCEPT ![d].index_status = index_status,
                      ![d].index_completed_at = index_completed_at]
    ELSE [rows EXCEPT ![d].index_status = index_status]

\* the SELECT without its WHERE index_status = $1
get_documents_by_index_status_AnyStatus(rows, index_status) == DOMAIN rows

\* get_documents_by_index_status
get_documents_by_index_status(rows, index_status) ==
    {d \in DOMAIN rows : rows[d].index_status = index_status}

----------------------------------------------------------------------------
(* index_status_worker.py *)

FallbackSeconds == 600

\* check_operation_status taking a finished operation for a running one
check_operation_status_DoneIgnored(p) ==
    IF p = "done" THEN "indexing"
    ELSE IF p = "done_error" THEN "failed"
    ELSE IF p = "running" THEN "indexing"
    ELSE IF p = "raise_not_found" THEN "indexed"
    ELSE "indexing"

\* check_operation_status keeping the document indexing when the operation
\* is not found
check_operation_status_NotFoundKept(p) ==
    IF p = "done" THEN "indexed"
    ELSE IF p = "done_error" THEN "failed"
    ELSE IF p = "running" THEN "indexing"
    ELSE IF p = "raise_not_found" THEN "indexing"
    ELSE "indexing"

\* check_operation_status reporting every other exception as a failure
check_operation_status_ErrorFails(p) ==
    IF p = "done" THEN "indexed"
    ELSE IF p = "done_error" THEN "failed"
    ELSE IF p = "running" THEN "indexing"
    ELSE IF p = "raise_not_found" THEN "indexed"
    ELSE "failed"

\* check_operation_status: 'indexing', 'indexed' or 'failed'
check_operation_status(p) ==
    IF p = "done" THEN "indexed"
    ELSE IF p = "done_error" THEN "failed"
    ELSE IF p = "running" THEN "indexing"
    ELSE IF p = "raise_not_found" THEN "indexed"
    ELSE "indexing"

\* the loop body passing the time of the tick in the failed branch too
ReconcileOne_StampFailed(rows, d, p, t) ==
    IF rows[d].import_operation_id = NULL
    THEN IF t - rows[d].upload_date > FallbackSeconds
         THEN update_document_index_status(rows, d, "indexed", t)
         ELSE rows
    ELSE LET st == check_operation_status(p)
         IN  IF st = "indexed" THEN update_document_index_status(rows, d, "indexed", t)
             ELSE IF st = "failed" THEN update_document_index_status(rows, d, "failed", t)
             ELSE rows

\* the loop body with the age test >= in place of >
ReconcileOne_AtThreshold(rows, d, p, t) ==
    IF rows[d].import_operation_id = NULL
    THEN IF t - rows[d].upload_date >= FallbackSeconds
         THEN update_document_index_status(rows, d, "indexed", t)
         ELSE rows
    ELSE LET st == check_operation_status(p)
         IN  IF st = "indexed" THEN update_document_index_status(rows, d, "indexed", t)
             ELSE IF st = "failed" THEN update_document_index_status(rows, d, "failed", NoTime)
             ELSE rows

\* the body of the for loop of process_indexing_documents for one document
ReconcileOne(rows, d, p, t) ==
    IF rows[d].import_operation_id = NULL
    THEN IF t - rows[d].upload_date > FallbackSeconds
         THEN update_document_index_status(rows, d, "indexed", t)
         ELSE rows
    ELSE LET st == check_operation_status(p)
         IN  IF st = "indexed" THEN update_document_index_status(rows, d, "indexed", t)
             ELSE IF st = "failed" THEN update_document_index_status(rows, d, "failed", NoTime)
             ELSE rows

\* the documents of the batch for which get_operation is called
Polled(rows, ds) == {d \in ds : rows[d].import_operation_id # NULL}

\* the counter the loop body increments for document d: "none" when the body
\* leaves through continue without counting
Counted(rows, d, p, t) ==
    IF rows[d].import_operation_id = NULL
    THEN IF t - rows[d].upload_date > FallbackSeconds THEN "completed" ELSE "none"
    ELSE LET st == check_operation_status(p)
         IN  IF st = "indexed" THEN "completed"
             ELSE IF st = "failed" THEN "failed"
             ELSE "still_indexing"

\* the counters process_indexing_documents returns for the batch ds
TickStats(rows, ds, f, t) ==
    [c \in {"completed", "failed", "still_indexing"} |->
        Cardinality({d \in ds : Counted(rows, d, f[d], t) = c})]

\* the table after the for loop over the batch ds, f[d] the poll outcome of d
ReconcileAll(rows, ds, f, t) ==
    [d \in DOMAIN rows |-> IF d \in ds THEN ReconcileOne(rows, d, f[d], t)[d] ELSE rows[d]]

\* what one call of process_indexing_documents does to the table and what it
\* returns, f gives the poll outcome per document
IndexStatusTick ==
    LET documents == get_documents_by_index_status(docs, "indexing")
    IN  \E f \in [documents -> PollOutcomes] :
          LET after == ReconcileAll(docs, documents, f, now)
          IN  /\ docs' = after
              /\ req' = [NoReq EXCEPT !.op = "reconcile",
                                      !.stats = TickStats(docs, documents, f, now),
                                      !.fetched = documents,
                                      !.polled = Polled(docs, documents),
                                      !.answers = {<<d, f[d]>> : d \in Polled(docs, documents)}]

\* process_indexing_documents: one tick
process_indexing_documents ==
    /\ IndexStatusTick
    /\ UNCHANGED <<collection, nextDoc, blobs, index>>
    /\ UNCHANGED queueVars
    /\ UNCHANGED workerVars
    /\ UNCHANGED loopVars
    /\ UNCHANGED peerVars

----------------------------------------------------------------------------
(* main.py *)

\* the datastore finishes, or gives up, the indexing of a created document
VertexIndexing(d) ==
    /\ index[d] = "creating"
    /\ \E st \in {"present", "absent"} : index' = [index EXCEPT ![d] = st]
    /\ req' = [NoReq EXCEPT !.op = "indexing", !.doc = d]
    /\ UNCHANGED <<collection, docs, nextDoc, blobs>>
    /\ UNCHANGED queueVars
    /\ UNCHANGED workerVars
    /\ UNCHANGED loopVars
    /\ UNCHANGED peerVars

\* upload_documents with one file
upload_documents(user) ==
    /\ nextDoc <= MaxDocs
    /\ IF ~collection \/ user \notin UserIds
       THEN /\ req' = [NoReq EXCEPT !.op = "upload", !.user = user, !.http = 404]
            /\ UNCHANGED <<collection, docs, nextDoc, blobs, index>>
       ELSE \E c \in CreateOutcomes :
            LET d == nextDoc
                import_success == c = "created"
            IN  /\ blobs' = blobs \cup {GcsUri(d)}
                /\ index' = IF import_success THEN [index EXCEPT ![d] = "creating"] ELSE index
                /\ docs' = [e \in DOMAIN docs \cup {d} |->
                              IF e = d
                              THEN NewDocument(d, user,
                                     IF import_success THEN OperationName ELSE NULL, now)
                              ELSE docs[e]]
                /\ nextDoc' = nextDoc + 1
                /\ req' = [NoReq EXCEPT !.op = "upload", !.doc = d, !.user = user, !.http = 202]
                /\ UNCHANGED collection
    /\ UNCHANGED queueVars
    /\ UNCHANGED workerVars
    /\ UNCHANGED loopVars
    /\ UNCHANGED peerVars

\* the table after enqueue_deletion is awaited by a request handler
Enqueued(st, doc, user, t) ==
    [queue |-> InsertRow(st.queue, st.nextId, doc, user, t),
     nextId |-> st.nextId + 1,
     calls |-> [j \in DOMAIN st.calls \cup {st.nextId} |->
                  IF j = st.nextId THEN 0 ELSE st.calls[j]]]

\* the outcomes of the calls the delete handlers make for one document:
\* delete_file, the listing and the inner delete_document, which is not
\* called when the listing failed (o is then a fixed value nothing reads)
CleanupOutcomes ==
    {c \in [g : GcsOutcomes, l : ListOutcomes, o : GatewayOutcomes] :
        c.l = "error" => c.o = CHOOSE o \in GatewayOutcomes : o.kind = "raise"}

\* the handler answering 500, with the row kept, when the gateway deletion
\* did not succeed
delete_document_GatewayFatal(d, user) ==
    /\ d < nextDoc
    /\ IF d \notin DOMAIN docs
       THEN /\ req' = [NoReq EXCEPT !.op = "delete_document", !.doc = d, !.user = user,
                                    !.http = 404]
            /\ UNCHANGED <<docs, blobs, index>>
            /\ UNCHANGED queueVars
       ELSE LET document == get_document_by_id(docs, d)
                index_status == DictGet(document, "index_status", "indexed")
            IN  IF document.user_id # user
                THEN /\ req' = [NoReq EXCEPT !.op = "delete_document", !.doc = d,
                                  !.user = user, !.http = 403,
                                  !.index_status = docs[d].index_status]
                     /\ UNCHANGED <<docs, blobs, index>>
                     /\ UNCHANGED queueVars
                ELSE IF index_status \in {"pending", "indexing"}
                THEN /\ req' = [NoReq EXCEPT !.op = "delete_document", !.doc = d,
                                  !.user = user, !.http = 409,
                                  !.index_status = docs[d].index_status]
                     /\ UNCHANGED <<docs, blobs, index>>
                     /\ UNCHANGED queueVars
                ELSE \E c \in CleanupOutcomes, v \in VerifyOutcomes :
                     LET g == c.g
                         r == delete_document_by_uri(index, document.gcs_uri, c.l, c.o)
                         enqueue == \/ r.success /\ v = "raise"
                                    \/ ~r.success /\ IsNotFoundMessage(r.message)
                         st == [queue |-> queue, nextId |-> nextId, calls |-> calls]
                         st2 == IF enqueue
                                THEN Enqueued(st, document.vertex_ai_doc_id, user, now)
                                ELSE st
                     IN  /\ blobs' = delete_file(blobs, document.gcs_blob_name, g)
                         /\ index' = r.index
                         /\ queue' = st2.queue
                         /\ nextId' = st2.nextId
                         /\ calls' = st2.calls
                         /\ docs' = IF r.success THEN DeleteRows(docs, {d}) ELSE docs
                         /\ req' = [op |-> "delete_document", doc |-> d, user |-> user,
                                    http |-> IF g = "raise" \/ ~r.success THEN 500 ELSE 200,
                                    index_status |-> docs[d].index_status,
                                    matched |-> r.matched,
                                    vertex_ai_deleted |-> r.success,
                                    gateway_failed |-> ~r.success,
                                    message |-> r.message,
                                    removed |-> IF r.success THEN {d} ELSE {},
                                    vertex_ai_verification |->
                                       IF r.success /\ v # "raise"
                                       THEN {verify_deletion(r.index,
                                                document.vertex_ai_doc_id, v)}
                                       ELSE {},
                                    vertex_ai_deletions_queued |-> 0,
                                    gateway_failures |-> IF r.success THEN {} ELSE {d},
                                    stats |-> ZeroStats, fetched |-> {}, polled |-> {}, answers |-> {}]
    /\ UNCHANGED <<collection, nextDoc>>
    /\ UNCHANGED workerVars
    /\ UNCHANGED loopVars
    /\ UNCHANGED peerVars

\* DELETE /documents/{doc_id}
delete_document(d, user) ==
    /\ d < nextDoc
    /\ IF d \notin DOMAIN docs
       THEN /\ req' = [NoReq EXCEPT !.op = "delete_document", !.doc = d, !.user = user,
                                    !.http = 404]
            /\ UNCHANGED <<docs, blobs, index>>
            /\ UNCHANGED queueVars
       ELSE LET document == get_document_by_id(docs, d)
                index_status == DictGet(document, "index_status", "indexed")
            IN  IF document.user_id # user
                THEN /\ req' = [NoReq EXCEPT !.op = "delete_document", !.doc = d,
                                  !.user = user, !.http = 403,
                                  !.index_status = docs[d].index_status]
                     /\ UNCHANGED <<docs, blobs, index>>
                     /\ UNCHANGED queueVars
                ELSE IF index_status \in {"pending", "indexing"}
                THEN /\ req' = [NoReq EXCEPT !.op = "delete_document", !.doc = d,
                                  !.user = user, !.http = 409,
                                  !.index_status = docs[d].index_status]
                     /\ UNCHANGED <<docs, blobs, index>>
                     /\ UNCHANGED queueVars
                ELSE \E c \in CleanupOutcomes, v \in VerifyOutcomes :
                     LET g == c.g
                         r == delete_document_by_uri(index, document.gcs_uri, c.l, c.o)
                         enqueue == \/ r.success /\ v = "raise"
                                    \/ ~r.success /\ IsNotFoundMessage(r.message)
                         st == [queue |-> queue, nextId |-> nextId, calls |-> calls]
                         st2 == IF enqueue
                                THEN Enqueued(st, document.vertex_ai_doc_id, user, now)
                                ELSE st
                     IN  /\ blobs' = delete_file(blobs, document.gcs_blob_name, g)
                         /\ index' = r.index
                         /\ queue' = st2.queue
                         /\ nextId' = st2.nextId
                         /\ calls' = st2.calls
                         /\ docs' = DeleteRows(docs, {d})
                         /\ req' = [op |-> "delete_document", doc |-> d, user |-> user,
                                    http |-> IF g = "raise" THEN 500 ELSE 200,
                                    index_status |-> docs[d].index_status,
                                    matched |-> r.matched,
                                    vertex_ai_deleted |-> r.success,
                                    gateway_failed |-> ~r.success,
                                    message |-> r.message,
                                    removed |-> {d},
                                    vertex_ai_verification |->
                                       IF r.success /\ v # "raise"
                                       THEN {verify_deletion(r.index,
                                                document.vertex_ai_doc_id, v)}
                                       ELSE {},
                                    vertex_ai_deletions_queued |-> 0,
                                    gateway_failures |-> IF r.success THEN {} ELSE {d},
                                    stats |-> ZeroStats, fetched |-> {}, polled |-> {}, answers |-> {}]
    /\ UNCHANGED <<collection, nextDoc>>
    /\ UNCHANGED workerVars
    /\ UNCHANGED loopVars
    /\ UNCHANGED peerVars

\* the for loop of delete_collection enqueueing, as delete_document does,
\* only the failures whose message says not found
RECURSIVE CollectionCleanup_NotFoundOnly(_, _, _, _, _)
CollectionCleanup_NotFoundOnly(ds, st, ch, user, t) ==
    IF ds = {} THEN st
    ELSE LET d == CHOOSE x \in ds : \A y \in ds : docs[y].upload_date <= docs[x].upload_date
             r == delete_document_by_uri(st.index, docs[d].gcs_uri, ch[d].l, ch[d].o)
             q == [queue |-> st.queue, nextId |-> st.nextId, calls |-> st.calls]
             q2 == IF ~r.success /\ IsNotFoundMessage(r.message)
                   THEN Enqueued(q, docs[d].vertex_ai_doc_id, user, t) ELSE q
         IN  CollectionCleanup_NotFoundOnly(ds \ {d},
                 [queue |-> q2.queue, nextId |-> q2.nextId, calls |-> q2.calls,
                  blobs |-> delete_file(st.blobs, docs[d].gcs_blob_name, ch[d].g),
                  index |-> r.index,
                  queued |-> st.queued + (q2.nextId - q.nextId),
                  failed |-> st.failed \cup (IF r.success THEN {} ELSE {d})],
                 ch, user, t)

\* the for loop of delete_collection over the documents ds, with the outcomes
\* ch[d] of the calls made for document d
RECURSIVE CollectionCleanup(_, _, _, _, _)
CollectionCleanup(ds, st, ch, user, t) ==
    IF ds = {} THEN st
    ELSE LET d == CHOOSE x \in ds : \A y \in ds : docs[y].upload_date <= docs[x].upload_date
             r == delete_document_by_uri(st.index, docs[d].gcs_uri, ch[d].l, ch[d].o)
             q == [queue |-> st.queue, nextId |-> st.nextId, calls |-> st.calls]
             q2 == IF r.success THEN q ELSE Enqueued(q, docs[d].vertex_ai_doc_id, user, t)
         IN  CollectionCleanup(ds \ {d},
                 [queue |-> q2.queue, nextId |-> q2.nextId, calls |-> q2.calls,
                  blobs |-> delete_file(st.blobs, docs[d].gcs_blob_name, ch[d].g),
                  index |-> r.index,
                  queued |-> st.queued + (IF r.success THEN 0 ELSE 1),
                  failed |-> st.failed \cup (IF r.success THEN {} ELSE {d})],
                 ch, user, t)

\* DELETE /collections/{collection_id}
delete_collection(user) ==
    /\ IF ~collection \/ user \notin UserIds
       THEN /\ req' = [NoReq EXCEPT !.op = "delete_collection", !.user = user, !.http = 404]
            /\ UNCHANGED <<collection, docs, blobs, index>>
            /\ UNCHANGED queueVars
       ELSE LET documents == {d \in DOMAIN docs : docs[d].user_id = user}
            IN  \E ch \in [documents -> CleanupOutcomes] :
                LET st == CollectionCleanup(documents,
                              [queue |-> queue, nextId |-> nextId, calls |-> calls,
                               blobs |-> blobs, index |-> index, queued |-> 0, failed |-> {}],
                              ch, user, now)
                IN  /\ queue' = st.queue
                    /\ nextId' = st.nextId
                    /\ calls' = st.calls
                    /\ blobs' = st.blobs
                    /\ index' = st.index
                    /\ docs' = DeleteRows(docs, DOMAIN docs)
                    /\ collection' = FALSE
                    /\ req' = [NoReq EXCEPT !.op = "delete_collection", !.user = user,
                                 !.http = 200, !.removed = DOMAIN docs,
                                 !.gateway_failed = st.failed # {},
                                 !.vertex_ai_deletions_queued = st.queued,
                                 !.gateway_failures = st.failed,
                                 !.index_status =
                                    IF \E d \in DOMAIN docs :
                                         docs[d].index_status \in {"pending", "indexing"}
                                    THEN "indexing" ELSE "indexed"]
    /\ UNCHANGED nextDoc
    /\ UNCHANGED workerVars
    /\ UNCHANGED loopVars
    /\ UNCHANGED peerVars

NextApi ==
    \/ \E user \in Requesters : upload_documents(user)
    \/ \E d \in DocIds : VertexIndexing(d)
    \/ process_indexing_documents
    \/ \E d \in DocIds, user \in Requesters : delete_document(d, user)
    \/ \E user \in Requesters : delete_collection(user)

SpecApi == Init /\ [][NextApi]_vars

----------------------------------------------------------------------------
(* index_status_worker.py: the worker loop with its clock, next to the
   upload path that creates the rows it works on *)

ReconcilerInterval == 120

\* the instant the service starts, and the upload_date of a row that is
\* already in the table by then
StartupTime == 1
StoredUploadDates == {0, 1, 2}

\* a row stored with index_status = 'indexing' and no operation id: the rows
\* the branch "if not import_operation_id" of process_indexing_documents is for
StoredDocument(d, user, t) ==
    [NewDocument(d, user, NULL, t) EXCEPT !.index_status = "indexing"]

\* the table when the worker starts: empty, or holding one stored row
InitReconciler ==
    /\ now = StartupTime
    /\ queue = <<>>
    /\ nextId = 1
    /\ pc = "tick"
    /\ pending = <<>>
    /\ counts = ZeroCounts
    /\ calls = <<>>
    /\ last = NoOp
    /\ collection = TRUE
    /\ req = NoReq
    /\ running = [w \in Workers |-> TRUE]
    /\ rpc = "tick"
    /\ life = NoLife
    /\ peer = NoPeer
    /\ \/ /\ docs = <<>>
          /\ nextDoc = 1
          /\ blobs = {}
          /\ index = [d \in DocIds |-> "absent"]
       \/ \E t \in StoredUploadDates, st \in {"present", "absent"} :
          /\ docs = <<StoredDocument(1, "u1", t)>>
          /\ nextDoc = 2
          /\ blobs = {GcsUri(1)}
          /\ index = [d \in DocIds |-> IF d = 1 THEN st ELSE "absent"]

\* start_background_worker: await asyncio.sleep(interval_seconds) after a
\* tick has returned; what happens during the sleep is placed after it. The
\* worker goes on past MaxClock, where the clock is no longer advanced: every
\* stored row is older than FallbackSeconds by then
ReconcilerSleep ==
    /\ req.op = "reconcile"
    /\ now' = IF now + ReconcilerInterval <= MaxClock
              THEN now + ReconcilerInterval
              ELSE now
    /\ req' = [NoReq EXCEPT !.op = "sleep"]
    /\ UNCHANGED <<pc, pending, counts, last>>
    /\ UNCHANGED queueVars
    /\ UNCHANGED <<collection, docs, nextDoc, blobs, index>>
    /\ UNCHANGED loopVars
    /\ UNCHANGED peerVars

\* a tick in which every get_operation call answers done
PollsAnswered == process_indexing_documents /\ req'.stats.still_indexing = 0

NextReconciler ==
    \/ \E user \in Requesters : upload_documents(user)
    \/ \E d \in DocIds : VertexIndexing(d)
    \/ process_indexing_documents
    \/ ReconcilerSleep

\* the worker keeps ticking and sleeping, and the operations service answers
\* done for good at some tick
SpecReconciler ==
    /\ InitReconciler
    /\ [][NextReconciler]_vars
    /\ WF_vars(process_indexing_documents)
    /\ WF_vars(ReconcilerSleep)
    /\ WF_vars(PollsAnswered)

----------------------------------------------------------------------------
(* main.py startup_event and shutdown_event, and the two worker loops
   (start_background_worker, stop_background_worker) from the creation of
   their tasks to their exit.  The deletion worker is at pc, the index
   status worker at rpc: "idle" before startup, "created" once the task
   exists, "tick" in the loop body, "sleeping" in asyncio.sleep, "exited"
   when the while test has failed.  A store error (the database refusing a
   statement) is the one thing that leaves a tick as an exception. *)

\* the rows the deletion queue holds when the process starts (the table
\* outlives the process): one due entry, so that the first tick has a batch
StoredQueue == InsertRow(<<>>, 1, 1, "u1", 0)

\* the state after construction, before startup_event
InitWorkers ==
    /\ now = 0
    /\ queue = StoredQueue
    /\ nextId = 2
    /\ pc = "idle"
    /\ pending = <<>>
    /\ counts = ZeroCounts
    /\ calls = [i \in DOMAIN StoredQueue |-> 0]
    /\ last = NoOp
    /\ collection = TRUE
    /\ docs = <<>>
    /\ nextDoc = 1
    /\ blobs = {}
    /\ index = [d \in DocIds |-> "absent"]
    /\ req = NoReq
    /\ running = [w \in Workers |-> FALSE]
    /\ rpc = "idle"
    /\ life = NoLife
    /\ peer = NoPeer

\* startup_event: asyncio.create_task for both loops
startup_event ==
    /\ pc = "idle" /\ rpc = "idle"
    /\ pc' = "created"
    /\ rpc' = "created"
    /\ last' = [NoOp EXCEPT !.op = "startup"]
    /\ UNCHANGED <<now, pending, counts, running, life>>
    /\ UNCHANGED peerVars
    /\ UNCHANGED queueVars
    /\ UNCHANGED apiVars

\* where a loop goes when asyncio.sleep returns and "while self.running" is
\* read without looking at the flag
AfterSleep_FlagIgnored(flag) == "tick"

\* where a loop goes when asyncio.sleep returns: while self.running
AfterSleep(flag) == IF flag THEN "tick" ELSE "exited"

\* where a loop goes when its tick raises, the exception left uncaught
AfterRaise_Uncaught(flag) == "exited"

\* where a loop goes when its tick raises: except Exception, then the sleep
AfterRaise(flag) == "sleeping"

\* the wakes counter of worker w after one more return of asyncio.sleep
Woken(w) ==
    [life EXCEPT !.wakes[w] = IF life.stopped[w] # "no" /\ @ < 2 THEN @ + 1 ELSE @]

\* DeletionQueue.start_background_worker up to the first while test
DeletionWorkerStart ==
    /\ pc = "created"
    /\ running' = [running EXCEPT !["deletion_queue"] = TRUE]
    /\ pc' = AfterSleep(TRUE)
    /\ last' = [NoOp EXCEPT !.op = "start"]
    /\ life' = [life EXCEPT !.early["deletion_queue"] = FALSE]
    /\ UNCHANGED <<now, pending, counts, rpc>>
    /\ UNCHANGED peerVars
    /\ UNCHANGED queueVars
    /\ UNCHANGED apiVars

\* process_pending_deletions raises a store error: at the SELECT, or at the
\* UPDATE or DELETE of the record in hand after its gateway call; the rest of
\* the batch is not attempted in this tick; the loop logs the error
DeletionTickRaises ==
    /\ life.raised["deletion_queue"] < MaxRaises
    /\ \/ pc = "tick"
       \/ pc = "processing" /\ pending # <<>>
    /\ calls' = IF pc = "processing"
                THEN [calls EXCEPT ![Head(pending).id] = @ + 1]
                ELSE calls
    /\ pending' = <<>>
    /\ pc' = AfterRaise(running["deletion_queue"])
    /\ last' = [NoOp EXCEPT !.op = "raise"]
    /\ life' = [life EXCEPT !.raised["deletion_queue"] = @ + 1]
    /\ UNCHANGED <<now, counts, queue, nextId, running, rpc>>
    /\ UNCHANGED peerVars
    /\ UNCHANGED apiVars

\* DeletionQueue.start_background_worker: asyncio.sleep returns and the
\* while test is evaluated.  The clock is not followed here: nothing in the
\* control of the loops reads it
DeletionWorkerWake ==
    /\ pc = "sleeping"
    /\ pc' = AfterSleep(running["deletion_queue"])
    /\ last' = [NoOp EXCEPT !.op = "wake"]
    /\ life' = Woken("deletion_queue")
    /\ UNCHANGED <<now, pending, counts, running, rpc>>
    /\ UNCHANGED peerVars
    /\ UNCHANGED queueVars
    /\ UNCHANGED apiVars

\* IndexStatusWorker.start_background_worker up to the first while test
IndexWorkerStart ==
    /\ rpc = "created"
    /\ running' = [running EXCEPT !["index_status_worker"] = TRUE]
    /\ rpc' = AfterSleep(TRUE)
    /\ req' = [NoReq EXCEPT !.op = "start"]
    /\ life' = [life EXCEPT !.early["index_status_worker"] = FALSE]
    /\ UNCHANGED <<collection, docs, nextDoc, blobs, index>>
    /\ UNCHANGED peerVars
    /\ UNCHANGED queueVars
    /\ UNCHANGED workerVars

\* one tick of the index status worker loop, returning normally
IndexWorkerTick ==
    /\ rpc = "tick"
    /\ IndexStatusTick
    /\ rpc' = "sleeping"
    /\ UNCHANGED <<collection, nextDoc, blobs, index, running, life>>
    /\ UNCHANGED peerVars
    /\ UNCHANGED queueVars
    /\ UNCHANGED workerVars

\* process_indexing_documents raises: get_documents_by_index_status
\* re-raises the store error of its SELECT
IndexTickRaises ==
    /\ life.raised["index_status_worker"] < MaxRaises
    /\ rpc = "tick"
    /\ rpc' = AfterRaise(running["index_status_worker"])
    /\ req' = [NoReq EXCEPT !.op = "raise"]
    /\ life' = [life EXCEPT !.raised["index_status_worker"] = @ + 1]
    /\ UNCHANGED <<collection, docs, nextDoc, blobs, index, running>>
    /\ UNCHANGED peerVars
    /\ UNCHANGED queueVars
    /\ UNCHANGED workerVars

\* IndexStatusWorker.start_background_worker: asyncio.sleep returns and the
\* while test is evaluated
IndexWorkerWake ==
    /\ rpc = "sleeping"
    /\ rpc' = AfterSleep(running["index_status_worker"])
    /\ req' = [NoReq EXCEPT !.op = "wake"]
    /\ life' = Woken("index_status_worker")
    /\ UNCHANGED <<collection, docs, nextDoc, blobs, index, running>>
    /\ UNCHANGED peerVars
    /\ UNCHANGED queueVars
    /\ UNCHANGED workerVars

\* the position of the loop of worker w
Position(w) == IF w = "deletion_queue" THEN pc ELSE rpc

\* the flags after stop_background_worker of w; life.stopped records a stop
\* that found the loop running, life.early one that came before the body of
\* the task first ran
Stopped(w) ==
    [running |-> [running EXCEPT ![w] = FALSE],
     life |-> IF running[w] /\ life.stopped[w] = "no"
              THEN [life EXCEPT !.stopped[w] = Position(w),
                                !.left = IF w = "deletion_queue" THEN Len(pending) ELSE @]
              ELSE IF Position(w) = "created"
              THEN [life EXCEPT !.early[w] = TRUE]
              ELSE life]

\* stop_background_worker of worker w, called on the worker object
stop_background_worker(w) ==
    /\ Position(w) # "idle"
    /\ running' = Stopped(w).running
    /\ life' = Stopped(w).life
    /\ UNCHANGED <<rpc>>
    /\ UNCHANGED peerVars
    /\ UNCHANGED queueVars
    /\ UNCHANGED workerVars
    /\ UNCHANGED apiVars

\* shutdown_event: stops the deletion queue if it was created
shutdown_event ==
    /\ ~life.shutdown
    /\ LET st == IF pc # "idle" THEN Stopped("deletion_queue")
                 ELSE [running |-> running, life |-> life]
       IN  /\ running' = st.running
           /\ life' = [st.life EXCEPT !.shutdown = TRUE]
    /\ UNCHANGED <<rpc>>
    /\ UNCHANGED peerVars
    /\ UNCHANGED queueVars
    /\ UNCHANGED workerVars
    /\ UNCHANGED apiVars

NextWorkers ==
    \/ startup_event
    \/ DeletionWorkerStart
    \/ TickSelect
    \/ Attempt
    \/ TickDone
    \/ DeletionTickRaises
    \/ DeletionWorkerWake
    \/ IndexWorkerStart
    \/ IndexWorkerTick
    \/ IndexTickRaises
    \/ IndexWorkerWake
    \/ \E w \in Workers : stop_background_worker(w)
    \/ shutdown_event

\* the event loop runs every task that can run
SpecWorkers ==
    /\ InitWorkers
    /\ [][NextWorkers]_vars
    /\ WF_vars(DeletionWorkerStart)
    /\ WF_vars(TickSelect)
    /\ WF_vars(Attempt)
    /\ WF_vars(TickDone)
    /\ WF_vars(DeletionWorkerWake)
    /\ WF_vars(IndexWorkerStart)
    /\ WF_vars(IndexWorkerTick)
    /\ WF_vars(IndexWorkerWake)

----------------------------------------------------------------------------
(* Two instances of the service on one database: each runs                 *)
(* process_pending_deletions of its own DeletionQueue object against the   *)
(* same deletion_queue table and the same gateway.  pc, pending, counts    *)
(* and last are the first instance's, peer holds the second one's.         *)

InitPeers ==
    /\ now = 0
    /\ queue = StoredQueue
    /\ nextId = 2
    /\ pc = "tick"
    /\ pending = <<>>
    /\ counts = ZeroCounts
    /\ calls = [i \in DOMAIN StoredQueue |-> 0]
    /\ last = NoOp
    /\ collection = TRUE
    /\ docs = <<>>
    /\ nextDoc = 1
    /\ blobs = {}
    /\ index = [d \in DocIds |-> "absent"]
    /\ req = NoReq
    /\ running = [w \in Workers |-> TRUE]
    /\ rpc = "tick"
    /\ life = NoLife
    /\ peer = [NoPeer EXCEPT !.pc = "tick"]

\* the SELECT leaving out the rows the other instance has fetched and not
\* yet attempted
PeerTickSelect_SkipHeld ==
    /\ peer.pc = "tick"
    /\ \E s \in SelectPending(queue, now) :
         LET free == SelectSeq(s, LAMBDA i : \A k \in 1..Len(pending) : pending[k].id # i)
         IN  peer' = [pc |-> "processing",
                      pending |-> [k \in 1..Len(free) |-> Fetched(queue, free[k])],
                      counts |-> ZeroCounts,
                      last |-> [NoOp EXCEPT !.op = "select"]]
    /\ UNCHANGED queueVars
    /\ UNCHANGED workerVars
    /\ UNCHANGED apiVars
    /\ UNCHANGED loopVars

\* process_pending_deletions of the second instance: the SELECT
PeerTickSelect ==
    /\ peer.pc = "tick"
    /\ \E s \in SelectPending(queue, now) :
         peer' = [pc |-> "processing",
                  pending |-> [k \in 1..Len(s) |-> Fetched(queue, s[k])],
                  counts |-> ZeroCounts,
                  last |-> [NoOp EXCEPT !.op = "select"]]
    /\ UNCHANGED queueVars
    /\ UNCHANGED workerVars
    /\ UNCHANGED apiVars
    /\ UNCHANGED loopVars

\* process_pending_deletions of the second instance: one iteration of the
\* for loop
PeerAttempt ==
    /\ peer.pc = "processing"
    /\ peer.pending # <<>>
    /\ LET record == Head(peer.pending)
       IN  \E o \in GatewayOutcomes :
             LET r == _attempt_deletion(queue, record, o, now)
             IN  /\ queue' = r.queue
                 /\ calls' = [j \in DOMAIN r.queue |-> IF j = record.id THEN calls[j] + 1 ELSE calls[j]]
                 /\ peer' = [pc |-> "processing",
                             pending |-> Tail(peer.pending),
                             counts |-> [peer.counts EXCEPT ![r.result] = @ + 1],
                             last |-> [op |-> "attempt", id |-> record.id,
                                       vertex_ai_doc_id |-> record.vertex_ai_doc_id,
                                       attempt_count |-> record.attempt_count + 1,
                                       max_attempts |-> record.max_attempts,
                                       outcome |-> o, result |-> r.result]]
    /\ UNCHANGED nextId
    /\ UNCHANGED workerVars
    /\ UNCHANGED apiVars
    /\ UNCHANGED loopVars

\* process_pending_deletions of the second instance: return
PeerTickDone ==
    /\ peer.pc = "processing"
    /\ peer.pending = <<>>
    /\ peer' = [peer EXCEPT !.pc = "sleeping", !.last = [NoOp EXCEPT !.op = "done"]]
    /\ UNCHANGED queueVars
    /\ UNCHANGED workerVars
    /\ UNCHANGED apiVars
    /\ UNCHANGED loopVars

NextPeers ==
    \/ \E doc \in DocIds, user \in UserIds : enqueue_deletion(doc, user)
    \/ TickSelect
    \/ Attempt
    \/ TickDone
    \/ PeerTickSelect
    \/ PeerAttempt
    \/ PeerTickDone

SpecPeers == InitPeers /\ [][NextPeers]_vars

----------------------------------------------------------------------------
(* Properties of the delete endpoints *)

\* C3: no externally-facing delete removes a document row while its
\* index_status is pending or indexing: a row is removed only when its
\* index_status is indexed or failed, and a delete request by the owner on a
\* pending or indexing document is rejected and leaves the three stores
\* unchanged.
C3_DeleteOnlyWhenTerminal ==
    [][ \A d \in DOMAIN docs :
          /\ d \notin DOMAIN docs' => docs[d].index_status \in {"indexed", "failed"}
          /\ (/\ req'.op = "delete_document" /\ req'.doc = d
              /\ req'.user = docs[d].user_id
              /\ docs[d].index_status \in {"pending", "indexing"})
               => /\ req'.http = 409
                  /\ docs' = docs /\ blobs' = blobs /\ index' = index ]_vars

\* C4: whenever the immediate gateway deletion performed by delete_document
\* fails, a queue entry for the document's vertex_ai_doc_id exists when the
\* request returns: after the row is removed the document is either absent
\* from the index or owned by a queue entry.
C4_FailedDeleteIsQueued ==
    (req.op = "delete_document" /\ req.removed # {} /\ req.matched) =>
        /\ req.gateway_failed =>
             \E i \in DOMAIN queue : queue[i].vertex_ai_doc_id = req.doc
        /\ \/ index[req.doc] = "absent"
           \/ \E i \in DOMAIN queue : queue[i].vertex_ai_doc_id = req.doc

\* C5: when delete_document skips the immediate deletion because no index
\* record has the document's URI, a queue entry for the document's
\* vertex_ai_doc_id is created.
C5_UnresolvedDeleteIsQueued ==
    (req.op = "delete_document" /\ req.removed # {} /\ ~req.matched) =>
        \E i \in DOMAIN queue :
            /\ queue[i].vertex_ai_doc_id = req.doc
            /\ queue[i].status = "pending"
            /\ queue[i].attempt_count = 0

\* a step of delete_document called by the owner of document d
OwnerDelete(d) ==
    /\ req'.op = "delete_document"
    /\ req'.doc = d
    /\ req'.user = docs[d].user_id

\* C31: a delete of a document with terminal index_status by its owner does
\* not fail because of the external index: whatever the listing, the gateway
\* delete and the verification return or raise, the metadata row is removed,
\* and the answer is a success unless the blob store (not the index) raised,
\* in which case the blob is still there
C31_DeleteNeverFailsOnIndex ==
    [][ \A d \in DOMAIN docs :
          (OwnerDelete(d) /\ docs[d].index_status \in {"indexed", "failed"}) =>
             /\ d \notin DOMAIN docs'
             /\ req'.removed = {d}
             /\ req'.http \in {200, 500}
             /\ req'.http = 500 => (docs[d].gcs_blob_name \in blobs' /\ blobs' = blobs)
             /\ req'.gateway_failed => req'.http = 200 \/ blobs' = blobs ]_vars

\* the gateway delete of an indexed document raised, and the owner got a
\* success with the row removed and the index record still there
C31_Witness ==
    /\ req.op = "delete_document"
    /\ req.index_status = "indexed"
    /\ req.http = 200
    /\ req.matched
    /\ req.gateway_failed
    /\ req.message = MsgException
    /\ req.removed = {req.doc}
    /\ req.doc \notin DOMAIN docs
    /\ index[req.doc] = "present"

\* C34: delete_document_by_uri reports success to delete_document only when
\* the record with the locator was deleted, or the datastore held no record
\* with that locator when it was listed; a listing that fails is not a success
C34_ListingErrorIsFailure ==
    [][ \A d \in DOMAIN docs :
          (OwnerDelete(d) /\ req'.http = 200 /\ req'.vertex_ai_deleted) =>
             \/ req'.matched /\ index'[d] = "absent"
             \/ index[d] # "present" ]_vars

\* C35: verify_deletion, called by delete_document after a reported success,
\* answers deleted = true only when the datastore holds no record with the
\* id, and deleted = false when the record is still there
C35_VerifySound ==
    [][ \A d \in DOMAIN docs :
          (OwnerDelete(d) /\ req'.http = 200 /\ req'.vertex_ai_verification # {}) =>
             req'.vertex_ai_verification = {index'[d] # "present"} ]_vars

\* C36: delete_collection enqueues exactly one entry, pending and not yet
\* attempted, for every document of the collection whose gateway deletion
\* failed, and no other entry; vertex_ai_deletions_queued is the number of
\* entries enqueued; the entries are there when the collection and its rows
\* are gone
C36_CollectionFailuresQueued ==
    [][ (req'.op = "delete_collection" /\ collection /\ ~collection') =>
          LET new == DOMAIN queue' \ DOMAIN queue
          IN  /\ \A d \in req'.gateway_failures :
                    Cardinality({i \in new :
                        queue'[i].vertex_ai_doc_id = docs[d].vertex_ai_doc_id}) = 1
              /\ Cardinality(new) = Cardinality(req'.gateway_failures)
              /\ req'.vertex_ai_deletions_queued = Cardinality(new)
              /\ \A i \in new : /\ queue'[i].status = "pending"
                                 /\ queue'[i].attempt_count = 0
                                 /\ queue'[i].user_id = req'.user
              /\ \A i \in DOMAIN queue : i \in DOMAIN queue' /\ queue'[i] = queue[i]
              /\ req'.gateway_failures \subseteq DOMAIN docs
              /\ docs' = <<>> ]_vars

\* a collection was deleted while the gateway deletion of its document failed:
\* one entry for the document is queued and counted
C36_Witness ==
    /\ req.op = "delete_collection"
    /\ req.http = 200
    /\ ~collection
    /\ docs = <<>>
    /\ req.gateway_failures # {}
    /\ req.removed = req.gateway_failures
    /\ req.vertex_ai_deletions_queued = 1
    /\ \E i \in DOMAIN queue : queue[i].vertex_ai_doc_id \in req.gateway_failures

----------------------------------------------------------------------------
(* Properties of the deletion queue *)

\* a step of the worker that attempted one fetched record
AttemptStep == pending # <<>> /\ pending' = Tail(pending) /\ last'.op = "attempt"

\* the gateway answered (False, message) with a not-found message
AnsweredNotFound(o) == o.kind = "return" /\ ~o.success /\ IsNotFoundMessage(o.message)

\* the gateway answered (False, message) with another message, or raised
AnsweredOtherError(o) ==
    \/ o.kind = "raise"
    \/ o.kind = "return" /\ ~o.success /\ ~IsNotFoundMessage(o.message)

\* C1: every entry with status = pending has attempt_count < max_attempts,
\* and no entry ever has attempt_count > max_attempts.
C1_PendingBelowMaxAttempts ==
    \A i \in DOMAIN queue :
        /\ queue[i].status = "pending" => queue[i].attempt_count < queue[i].max_attempts
        /\ queue[i].attempt_count <= queue[i].max_attempts

\* C2: bounded retry: an entry is removed or failed after at most max_attempts
\* gateway delete attempts, so an entry for which max_attempts gateway calls
\* were made is no longer pending.
C2_ResolvedWithinMaxAttempts ==
    \A i \in DOMAIN queue :
        /\ calls[i] <= queue[i].max_attempts
        /\ calls[i] >= queue[i].max_attempts => queue[i].status = "failed"

\* C6: terminal exclusivity: once an entry has status = failed, no step
\* (enqueue, select, attempt, sleep) changes any of its fields, calls the
\* gateway for it, or removes it.
C6_FailedIsFrozen ==
    [][ \A i \in DOMAIN queue :
          queue[i].status = "failed" =>
            /\ i \in DOMAIN queue'
            /\ queue'[i] = queue[i]
            /\ calls'[i] = calls[i]
            /\ \A k \in 1..Len(pending') : pending'[k].id # i ]_vars

\* a failed entry whose retry time has passed was left alone by an attempt
\* on another entry, or by an enqueue
C6_Witness ==
    \E i \in DOMAIN queue :
        /\ queue[i].status = "failed"
        /\ queue[i].next_retry_at <= now
        /\ last.op \in {"attempt", "enqueue"}
        /\ last.id # i

\* the schedule as the specification states it
ScheduleTable == <<120, 180, 300, 600, 900, 1800, 3600, 7200, 14400, 28800>>

\* C7: backoff schedule: the delay for post-increment attempt_count n is
\* 120, 180, 300, 600 for n = 1..4 and min(900 * 2^(n-5), 28800) for n in
\* 5..10, it never decreases with n, and it is the delay a scheduled retry
\* gets: next_retry_at = now + delay.
C7_BackoffSchedule ==
    /\ \A n \in 1..10 : delay_seconds(n) = ScheduleTable[n]
    /\ \A n \in 5..10 : delay_seconds(n) = Min(900 * 2 ^ (n - 5), 28800)
    /\ \A n \in 1..9 : delay_seconds(n) <= delay_seconds(n + 1)
    /\ (last.op = "attempt" /\ last.result = "skipped" /\ last.attempt_count \in 1..10)
         => /\ last.id \in DOMAIN queue
            /\ queue[last.id].next_retry_at = now + ScheduleTable[last.attempt_count]

\* a retry was scheduled in the exponential part of the schedule
C7_Witness ==
    /\ last.op = "attempt"
    /\ last.result = "skipped"
    /\ last.attempt_count = 7
    /\ queue[last.id].next_retry_at = now + 3600

\* C8: idempotent success: when the gateway delete for one entry succeeds,
\* exactly that entry is removed and every other entry, duplicates of the same
\* target included, is unchanged.
C8_SuccessRemovesExactlyOne ==
    [][ (AttemptStep /\ last'.result = "succeeded") =>
          /\ last'.id \in DOMAIN queue
          /\ DOMAIN queue' = DOMAIN queue \ {last'.id}
          /\ \A i \in DOMAIN queue' : queue'[i] = queue[i] ]_vars

\* an entry was completed while a duplicate of the same target stays queued
C8_Witness ==
    /\ last.op = "attempt"
    /\ last.result = "succeeded"
    /\ last.id \notin DOMAIN queue
    /\ \E i \in DOMAIN queue : queue[i].vertex_ai_doc_id = last.vertex_ai_doc_id

\* C9: exhaustion on NotFound: when the gateway reports NotFound and the
\* post-increment attempt_count >= max_attempts, the entry stays in the table
\* with status = failed, that attempt_count, the fixed diagnostic as
\* last_error, and the tick counts it as failed.
C9_NotFoundExhaustion ==
    [][ (AttemptStep /\ AnsweredNotFound(last'.outcome)
           /\ last'.attempt_count >= last'.max_attempts) =>
          /\ last'.id \in DOMAIN queue'
          /\ queue'[last'.id].status = "failed"
          /\ queue'[last'.id].attempt_count = last'.attempt_count
          /\ queue'[last'.id].last_error = MsgMaxRetries
          /\ last'.result = "failed"
          /\ counts' = [counts EXCEPT !.failed = @ + 1] ]_vars

\* an entry was marked failed on a NotFound answer at its last attempt
C9_Witness ==
    /\ last.op = "attempt"
    /\ AnsweredNotFound(last.outcome)
    /\ last.attempt_count >= last.max_attempts
    /\ last.id \in DOMAIN queue
    /\ queue[last.id].status = "failed"
    /\ counts.failed >= 1

\* C10: errors other than NotFound follow the same branching: with the
\* post-increment attempt_count >= max_attempts the entry becomes failed with
\* the error message as last_error (result failed), otherwise a retry is
\* scheduled (result skipped).
C10_OtherErrorBranching ==
    (last.op = "attempt" /\ AnsweredOtherError(last.outcome)) =>
        /\ last.id \in DOMAIN queue
        /\ queue[last.id].last_error = last.outcome.message
        /\ queue[last.id].attempt_count = last.attempt_count
        /\ IF last.attempt_count >= last.max_attempts
           THEN queue[last.id].status = "failed" /\ last.result = "failed"
           ELSE queue[last.id].status = "pending" /\ last.result = "skipped"

\* C13: eligibility gate: a tick selects, and calls the gateway for, only
\* entries that had status = pending and next_retry_at <= now when the batch
\* was selected; an entry whose next_retry_at is in the future is neither
\* attempted nor modified by that tick.
C13_EligibilityGate ==
    [][ /\ last'.op = "select" =>
             \A k \in 1..Len(pending') :
                 /\ queue[pending'[k].id].status = "pending"
                 /\ queue[pending'[k].id].next_retry_at <= now
        /\ AttemptStep =>
             /\ last'.id \in DOMAIN queue
             /\ queue[last'.id].status = "pending"
             /\ queue[last'.id].next_retry_at <= now
             /\ \A i \in DOMAIN queue :
                    queue[i].next_retry_at > now =>
                        /\ i \in DOMAIN queue'
                        /\ queue'[i] = queue[i]
                        /\ calls'[i] = calls[i] ]_vars

\* a tick attempted a due entry while another pending entry, attempted at an
\* earlier tick and waiting for a later retry time, was left alone
C13_Witness ==
    /\ last.op = "attempt"
    /\ \E i \in DOMAIN queue :
          /\ i # last.id
          /\ queue[i].status = "pending"
          /\ queue[i].next_retry_at > now
          /\ queue[i].next_retry_at # now + delay_seconds(queue[i].attempt_count)
          /\ calls[i] >= 1

\* C14: next_retry_at of a queue entry is monotonically non-decreasing over
\* the entry's lifetime: no step sets it to a value smaller than the one it
\* had.
C14_NextRetryMonotonic ==
    [][ \A i \in DOMAIN queue \cap DOMAIN queue' :
          queue'[i].next_retry_at >= queue[i].next_retry_at ]_vars

\* an entry was rescheduled for the second time or later, to a later time
C14_Witness ==
    /\ last.op = "attempt"
    /\ last.result = "skipped"
    /\ last.attempt_count >= 2
    /\ last.id \in DOMAIN queue
    /\ queue[last.id].next_retry_at > now
    /\ queue[last.id].created_at < now

\* the gateway answered (True, message)
AnsweredSuccess(o) == o.kind = "return" /\ o.success

\* C15: success path: every entry of a tick whose gateway delete returns
\* success no longer exists afterwards (no tombstone, no succeeded status),
\* and the tick's succeeded count is the number of such entries: it starts at
\* 0 with the SELECT, grows by one with each such entry and with nothing else.
C15_SuccessPath ==
    [][ /\ (AttemptStep /\ AnsweredSuccess(last'.outcome)) =>
             /\ last'.id \notin DOMAIN queue'
             /\ last'.result = "succeeded"
             /\ counts'.succeeded = counts.succeeded + 1
        /\ (AttemptStep /\ ~AnsweredSuccess(last'.outcome)) =>
             /\ last'.id \in DOMAIN queue'
             /\ counts'.succeeded = counts.succeeded
        /\ last'.op = "select" => counts'.succeeded = 0
        /\ (~AttemptStep /\ last'.op # "select") => counts'.succeeded = counts.succeeded
        /\ \A i \in DOMAIN queue' : queue'[i].status \in {"pending", "failed"} ]_vars

\* one entry was enqueued and the gateway succeeded: after the first tick the
\* queue is empty and succeeded = 1
C15_Witness ==
    /\ last.op = "done"
    /\ now = 0
    /\ nextId = 2
    /\ queue = <<>>
    /\ counts = [succeeded |-> 1, failed |-> 0, skipped |-> 0]

\* C20: enqueue_deletion is a pure insert: it adds exactly one entry with a
\* fresh queue id, status = pending, attempt_count = 0, max_attempts = 10 and
\* next_retry_at = now, calls the gateway for no entry and leaves the existing
\* entries unchanged; entries of the same vertex_ai_doc_id are distinct rows,
\* and an attempt on one of them changes no other.
C20_EnqueueIsPureInsert ==
    [][ /\ last'.op = "enqueue" =>
             /\ last'.id \notin DOMAIN queue
             /\ \A i \in DOMAIN queue : i < last'.id
             /\ DOMAIN queue' = DOMAIN queue \cup {last'.id}
             /\ queue'[last'.id].vertex_ai_doc_id = last'.vertex_ai_doc_id
             /\ queue'[last'.id].status = "pending"
             /\ queue'[last'.id].attempt_count = 0
             /\ queue'[last'.id].max_attempts = 10
             /\ queue'[last'.id].next_retry_at = now
             /\ calls'[last'.id] = 0
             /\ \A i \in DOMAIN queue : queue'[i] = queue[i] /\ calls'[i] = calls[i]
             /\ pending' = pending
        /\ AttemptStep =>
             \A i \in DOMAIN queue \ {last'.id} :
                 /\ i \in DOMAIN queue'
                 /\ queue'[i] = queue[i]
                 /\ calls'[i] = calls[i] ]_vars

\* the same vertex_ai_doc_id was enqueued a second time while its first
\* entry, already attempted once, waits for its retry
C20_Witness ==
    /\ last.op = "enqueue"
    /\ last.id \in DOMAIN queue
    /\ queue[last.id].attempt_count = 0
    /\ queue[last.id].next_retry_at = now
    /\ \E i \in DOMAIN queue :
          /\ i # last.id
          /\ queue[i].vertex_ai_doc_id = last.vertex_ai_doc_id
          /\ queue[i].attempt_count >= 1
          /\ queue[i].status = "pending"

\* the gateway answered (False, message) or raised
AnsweredFailure(o) == ~AnsweredSuccess(o)

\* C21: entry independence within a tick: a gateway failure on one selected
\* entry (failure result or raised exception) becomes a retry or a
\* terminal-fail decision for that entry only and does not end the tick:
\* the rest of the batch stays to be attempted, each entry once, and the
\* tick returns only when the batch is empty.
C21_EntryIndependence ==
    [][ /\ (AttemptStep /\ AnsweredFailure(last'.outcome)) =>
             /\ last'.id \in DOMAIN queue'
             /\ queue'[last'.id].attempt_count = queue[last'.id].attempt_count + 1
             /\ queue'[last'.id].last_error \in {last'.outcome.message, MsgMaxRetries}
             /\ \/ queue'[last'.id].status = "failed" /\ last'.result = "failed"
                \/ /\ queue'[last'.id].status = "pending"
                   /\ queue'[last'.id].next_retry_at > now
                   /\ last'.result = "skipped"
             /\ \A i \in DOMAIN queue \ {last'.id} :
                   i \in DOMAIN queue' /\ queue'[i] = queue[i] /\ calls'[i] = calls[i]
             /\ calls'[last'.id] = calls[last'.id] + 1
             /\ pc' = "processing"
             /\ pending' = Tail(pending)
             /\ \A k \in 1..Len(pending') : pending'[k].id # last'.id
        /\ last'.op = "select" =>
             \A j, k \in 1..Len(pending') : j # k => pending'[j].id # pending'[k].id
        /\ last'.op = "done" => pending = <<>> ]_vars

\* in one tick the gateway raised for one entry, which got its retry, and
\* the next entry of the batch was attempted all the same
C21_Witness ==
    /\ last.op = "attempt"
    /\ \E i \in DOMAIN queue :
          /\ i # last.id
          /\ queue[i].status = "pending"
          /\ queue[i].last_error = MsgException
          /\ queue[i].next_retry_at = now + delay_seconds(queue[i].attempt_count)
          /\ calls[i] >= 1

\* the ids of a fetched batch, in its order
BatchIds(batch) == [k \in 1..Len(batch) |-> batch[k].id]

\* C24: the SELECT of a tick returns at most 100 entries, all of them due, in
\* ascending next_retry_at, and when more than 100 entries are due the 100
\* with the smallest next_retry_at (no due entry left out is due before a
\* selected one); the tick attempts the batch one entry at a time in that
\* order and ends when the batch is exhausted
C24_TickSelection ==
    [][ /\ last'.op = "select" =>
              LET due == DueIds(queue, now)
                  ids == BatchIds(pending')
                  n   == Len(pending')
              IN  /\ n <= BatchLimit
                  /\ n = Min(Cardinality(due), BatchLimit)
                  /\ \A k \in 1..n : ids[k] \in due
                  /\ \A i, j \in 1..n : i < j =>
                        /\ ids[i] # ids[j]
                        /\ queue[ids[i]].next_retry_at <= queue[ids[j]].next_retry_at
                  /\ \A d \in due : (\A k \in 1..n : ids[k] # d) =>
                        \A k \in 1..n : queue[ids[k]].next_retry_at <= queue[d].next_retry_at
        /\ last'.op = "attempt" =>
              /\ pending # <<>>
              /\ last'.id = Head(pending).id
              /\ pending' = Tail(pending)
              /\ counts'.succeeded + counts'.failed + counts'.skipped <= BatchLimit
        /\ last'.op = "done" => pending = <<>> ]_vars

\* a tick has attempted 100 entries, oldest-due first, and ended, and an
\* entry that was due when the tick began is left for a later tick
C24_Witness ==
    /\ pc = "sleeping"
    /\ counts.succeeded = BatchLimit
    /\ \E i \in DOMAIN queue : IsDue(queue[i], now) /\ calls[i] = 0

\* C28: retry scheduling step: when the attempt on a due pending entry fails
\* and the post-increment attempt_count is below max_attempts, the entry is
\* still pending afterwards, its attempt_count is the previous one plus 1,
\* its last_error is the failure message and its next_retry_at is now plus
\* the delay of the new attempt_count (120 s after the first failed attempt
\* of a fresh entry); every attempt that leaves the entry in the table
\* raises attempt_count by exactly 1, so that attempt_count is the number of
\* gateway calls made for the entry
C28_RetryStep ==
    /\ [][ (AttemptStep /\ AnsweredFailure(last'.outcome)
               /\ last'.attempt_count < last'.max_attempts) =>
              /\ last'.id \in DOMAIN queue
              /\ IsDue(queue[last'.id], now)
              /\ last'.id \in DOMAIN queue'
              /\ queue'[last'.id].status = "pending"
              /\ queue'[last'.id].attempt_count = queue[last'.id].attempt_count + 1
              /\ queue'[last'.id].attempt_count = last'.attempt_count
              /\ queue'[last'.id].last_error = last'.outcome.message
              /\ queue'[last'.id].next_retry_at = now + delay_seconds(queue'[last'.id].attempt_count)
              /\ queue[last'.id].attempt_count = 0 => queue'[last'.id].next_retry_at = now + 120
              /\ last'.result = "skipped" ]_vars
    /\ [][ (AttemptStep /\ last'.id \in DOMAIN queue') =>
              /\ queue'[last'.id].attempt_count = queue[last'.id].attempt_count + 1
              /\ calls'[last'.id] = calls[last'.id] + 1 ]_vars
    /\ [](\A i \in DOMAIN queue : queue[i].attempt_count = calls[i])

\* the first attempt of a fresh entry failed with a transient error and the
\* retry is scheduled 120 seconds later
C28_Witness ==
    /\ last.op = "attempt"
    /\ last.outcome.message = MsgTransient
    /\ last.result = "skipped"
    /\ last.id \in DOMAIN queue
    /\ queue[last.id].status = "pending"
    /\ queue[last.id].attempt_count = 1
    /\ queue[last.id].last_error = MsgTransient
    /\ queue[last.id].next_retry_at = now + 120
    /\ calls[last.id] = 1

\* the number of the ids in ids whose row has status st, counted one by one
RECURSIVE CountStatus(_, _, _)
CountStatus(q, ids, st) ==
    IF ids = {}
    THEN 0
    ELSE LET i == CHOOSE j \in ids : TRUE
         IN  (IF q[i].status = st THEN 1 ELSE 0) + CountStatus(q, ids \ {i}, st)

QueueIds == 1..MaxArrivals \cup {MaxStored}

Immutable(row) ==
    [vertex_ai_doc_id |-> row.vertex_ai_doc_id, user_id |-> row.user_id,
     original_filename |-> row.original_filename, created_at |-> row.created_at,
     max_attempts |-> row.max_attempts]

\* C38: no step changes the vertex_ai_doc_id, user_id, original_filename,
\* created_at or max_attempts of an entry that stays in the table (its own
\* retry or failure, another entry's completion, an enqueue); max_attempts is
\* the default of the column for as long as the entry lives; the step that
\* marks an entry failed leaves its next_retry_at as it was
C38_ImmutableFields ==
    /\ [][ \A i \in DOMAIN queue :
              i \in DOMAIN queue' =>
                 /\ Immutable(queue'[i]) = Immutable(queue[i])
                 /\ (queue[i].status = "pending" /\ queue'[i].status = "failed") =>
                       queue'[i].next_retry_at = queue[i].next_retry_at ]_vars
    /\ [](\A i \in DOMAIN queue : /\ queue[i].max_attempts = DefaultMaxAttempts
                                   /\ queue[i].created_at <= now)

\* an entry was given up after its last attempt: it is failed, its
\* next_retry_at is still the one the previous retry scheduled, and another
\* entry was completed and removed in the meantime
C38_Witness ==
    /\ last.op = "attempt"
    /\ last.result = "failed"
    /\ last.id \in DOMAIN queue
    /\ queue[last.id].status = "failed"
    /\ queue[last.id].attempt_count = DefaultMaxAttempts
    /\ queue[last.id].max_attempts = DefaultMaxAttempts
    /\ queue[last.id].created_at = 0
    /\ queue[last.id].next_retry_at <= now
    /\ queue[last.id].next_retry_at > queue[last.id].created_at
    /\ nextId > Cardinality(DOMAIN queue) + 1

\* succeeded + failed + skipped of the tick in progress
CountSum(c) == c.succeeded + c.failed + c.skipped

\* C37: every selected entry yields exactly one of succeeded, failed, skipped.
\* The SELECT starts the tick with the counters at zero; every attempt takes
\* one record off the batch and adds one to exactly one counter; nothing else
\* changes the counters or the batch while the tick runs, and the tick
\* returns when the batch is empty: the three counters add up to the number
\* of entries selected.  The counter is failed exactly when the attempt moved
\* the entry to status failed, skipped exactly when it rescheduled the entry
\* (still pending, next_retry_at in the future), succeeded exactly when it
\* removed the entry
C37_TickAccounting ==
    /\ [][ (pc = "tick" /\ pc' = "processing") =>
              /\ counts' = ZeroCounts
              /\ \E s \in SelectPending(queue, now) :
                    /\ Len(pending') = Len(s)
                    /\ \A k \in 1..Len(s) : pending'[k].id = s[k] ]_vars
    /\ [][ (pc = "processing" /\ pc' = "processing") =>
              /\ CountSum(counts') + Len(pending') = CountSum(counts) + Len(pending)
              /\ \/ counts' = counts /\ pending' = pending
                 \/ AttemptStep ]_vars
    /\ [][ (pc = "processing" /\ pc' # "processing") =>
              pending = <<>> /\ pending' = <<>> /\ counts' = counts ]_vars
    /\ [][ AttemptStep =>
              LET i == last'.id
              IN  /\ i = Head(pending).id
                  /\ i \in DOMAIN queue /\ queue[i].status = "pending"
                  /\ counts' = [counts EXCEPT ![last'.result] = @ + 1]
                  /\ last'.result \in {"succeeded", "failed", "skipped"}
                  /\ last'.result = "succeeded" <=> i \notin DOMAIN queue'
                  /\ last'.result = "failed" <=>
                        (i \in DOMAIN queue' /\ queue'[i].status = "failed")
                  /\ last'.result = "skipped" <=>
                        (/\ i \in DOMAIN queue'
                         /\ queue'[i].status = "pending"
                         /\ queue'[i].next_retry_at > now)
                  /\ \A j \in DOMAIN queue \ {i} : j \in DOMAIN queue' /\ queue'[j] = queue[j] ]_vars

\* a tick of two selected entries returned: one was given up (failed), the
\* other rescheduled (skipped)
C37_Witness ==
    /\ last.op = "done"
    /\ pc = "sleeping"
    /\ counts = [succeeded |-> 0, failed |-> 1, skipped |-> 1]
    /\ Cardinality({i \in DOMAIN queue : queue[i].status = "failed"}) = 1
    /\ \E i \in DOMAIN queue : queue[i].status = "pending" /\ queue[i].next_retry_at > now

----------------------------------------------------------------------------
(* Properties of the index status reconciler *)

\* C11: reconciler soundness: in every reachable state a document whose
\* index_status is indexed exists in the external index, and a document whose
\* index_status is failed does not.
C11_ReconcilerSound ==
    \A d \in DOMAIN docs :
        /\ docs[d].index_status = "indexed" => index[d] = "present"
        /\ docs[d].index_status = "failed" => index[d] # "present"

\* C12: every created document eventually becomes terminal: with the worker
\* ticking, time advancing and the poll eventually answering done, every
\* document, created with index_status pending or indexing, eventually has
\* index_status indexed or failed.
C12_EventuallyTerminal ==
    \A d \in DocIds :
        (d \in DOMAIN docs) ~> (d \in DOMAIN docs /\ docs[d].index_status \in {"indexed", "failed"})

\* a step that is one process_indexing_documents tick
ReconcilerTick == req'.op = "reconcile"

\* the documents a step moves from indexing to the status st
Moved(st) ==
    {d \in DOMAIN docs \cap DOMAIN docs' :
        docs[d].index_status = "indexing" /\ docs'[d].index_status = st}

C17_OperationCompletion ==
    [][ ReconcilerTick =>
          \A d \in DOMAIN docs :
             (/\ docs[d].index_status = "indexing"
              /\ docs[d].import_operation_id # NULL
              /\ <<d, "done">> \in req'.answers) =>
                /\ docs'[d].index_status = "indexed"
                /\ docs'[d].index_completed_at = now
                /\ docs'[d].index_completed_at # NoTime
                /\ req'.stats.completed = Cardinality(Moved("indexed"))
                /\ req'.stats.completed >= 1 ]_vars

\* the operation of an uploaded document was polled, answered done, and the
\* document is indexed with its completion time
C17_Witness ==
    /\ req.op = "reconcile"
    /\ req.stats.completed = 1
    /\ \E d \in DOMAIN docs :
          /\ <<d, "done">> \in req.answers
          /\ docs[d].import_operation_id = OperationName
          /\ docs[d].index_status = "indexed"
          /\ docs[d].index_completed_at = now

\* C18: the only index_status transitions of the reconciler are
\* indexing -> indexed and indexing -> failed: a tick neither adds nor removes
\* rows, leaves every row whose index_status is indexed, failed or pending
\* exactly as it is (it does not even fetch it), and leaves an indexing row
\* indexing or moves it to indexed or failed.
C18_ReconcilerTransitions ==
    [][ ReconcilerTick =>
          /\ DOMAIN docs' = DOMAIN docs
          /\ \A d \in DOMAIN docs :
                /\ docs[d].index_status # "indexing" =>
                      /\ docs'[d] = docs[d]
                      /\ d \notin req'.fetched
                /\ docs[d].index_status = "indexing" =>
                      docs'[d].index_status \in {"indexing", "indexed", "failed"} ]_vars

\* a tick ran over a table whose document had been marked failed by an
\* earlier tick, and left it failed
C18_Witness ==
    /\ req.op = "reconcile"
    /\ req.fetched = {}
    /\ \E d \in DOMAIN docs :
          /\ docs[d].index_status = "failed"
          /\ docs[d].upload_date < now

\* C19: index_completed_at is set only on the transition into indexed: a
\* document whose index_completed_at is set has index_status = indexed, and a
\* document moved to failed has index_completed_at unset.
C19_CompletedAtOnlyWhenIndexed ==
    \A d \in DOMAIN docs :
        /\ docs[d].index_completed_at # NoTime => docs[d].index_status = "indexed"
        /\ docs[d].index_status = "failed" => docs[d].index_completed_at = NoTime

\* a tick moved a document to failed on a poll answering done with an error,
\* and index_completed_at is unset
C19_Witness ==
    /\ req.op = "reconcile"
    /\ req.stats.failed = 1
    /\ \E d \in DOMAIN docs :
          /\ <<d, "done_error">> \in req.answers
          /\ docs[d].index_status = "failed"
          /\ docs[d].index_completed_at = NoTime

\* C27: poll tolerance: a tick that polls the operation of a document with
\* index_status = indexing and is told that the operation is not found
\* treats the operation as succeeded: the document becomes indexed with
\* index_completed_at set, is counted completed, and is neither failed nor
\* left indexing
C27_NotFoundIsSuccess ==
    [][ ReconcilerTick =>
          \A d \in DOMAIN docs :
             (/\ docs[d].index_status = "indexing"
              /\ docs[d].import_operation_id # NULL
              /\ <<d, "raise_not_found">> \in req'.answers) =>
                /\ d \in req'.polled
                /\ docs'[d].index_status = "indexed"
                /\ docs'[d].index_completed_at = now
                /\ docs'[d].index_completed_at # NoTime
                /\ d \in Moved("indexed")
                /\ req'.stats.completed = Cardinality(Moved("indexed"))
                /\ req'.stats.failed = Cardinality(Moved("failed")) ]_vars

\* the operation of an uploaded document was polled and not found, and the
\* document is indexed with its completion time
C27_Witness ==
    /\ req.op = "reconcile"
    /\ req.stats = [completed |-> 1, failed |-> 0, still_indexing |-> 0]
    /\ \E d \in DOMAIN docs :
          /\ <<d, "raise_not_found">> \in req.answers
          /\ docs[d].import_operation_id = OperationName
          /\ docs[d].index_status = "indexed"
          /\ docs[d].index_completed_at = now

\* the poll of document d was answered "still running", or raised an error
\* other than not-found
AnsweredInProgress(d, answers) ==
    <<d, "running">> \in answers \/ <<d, "raise_other">> \in answers

----------------------------------------------------------------------------
(* Properties of the worker loops *)

\* a step that sets a running flag to false
StopStep == \E w \in Workers : running[w] /\ ~running'[w]

\* C22: cooperative stop: when stop_background_worker finds a loop running,
\* the call changes nothing but the flag (the tick in progress goes on where
\* it was), the loop exits at the first return of asyncio.sleep after the
\* call, without starting a tick after it has read the flag, and once exited
\* it stays exited; under a fair event loop it does exit.
C22_CooperativeStop ==
    /\ [][ /\ StopStep =>
                 /\ pc' = pc /\ rpc' = rpc
                 /\ pending' = pending /\ queue' = queue /\ calls' = calls
                 /\ docs' = docs
            /\ \A w \in Workers :
                 /\ Position(w) = "exited" => Position(w)' = "exited"
                 /\ (life.stopped[w] # "no" /\ Position(w) = "sleeping"
                       /\ Position(w)' # "sleeping") => Position(w)' = "exited" ]_vars
    /\ [](\A w \in Workers :
            /\ life.wakes[w] <= 1
            /\ life.wakes[w] = 1 => Position(w) = "exited")
    /\ \A w \in Workers : (life.stopped[w] # "no") ~> (Position(w) = "exited")

\* the deletion worker was stopped in the middle of a tick, with a record of
\* its batch still to attempt; the record was attempted all the same, and
\* the loop exited at its next wake-up
C22_Witness ==
    /\ life.stopped["deletion_queue"] = "processing"
    /\ life.left >= 1
    /\ pc = "exited"
    /\ life.wakes["deletion_queue"] = 1
    /\ life.raised["deletion_queue"] = 0
    /\ counts.succeeded + counts.failed + counts.skipped = 1

\* a step in which a tick of worker w ends in an exception
RaiseStep(w) == life'.raised[w] = life.raised[w] + 1

\* C30: loop resilience: a tick of either worker that raises does not end
\* the loop: the loop goes to its sleep with the running flag as it was, a
\* loop leaves its sleep for the next tick if running is true (and exits only
\* if it is false), and a sleeping loop whose flag stays true does start the
\* next tick
C30_LoopResilience ==
    /\ [][ \A w \in Workers :
             /\ RaiseStep(w) =>
                   /\ Position(w) \in {"tick", "processing"}
                   /\ Position(w)' = "sleeping"
                   /\ running' = running
             /\ (Position(w) = "sleeping" /\ Position(w)' # "sleeping") =>
                   Position(w)' = IF running[w] THEN "tick" ELSE "exited" ]_vars
    /\ \A w \in Workers :
          (Position(w) = "sleeping" /\ life.raised[w] >= 1)
             ~> (Position(w) = "tick" \/ ~running[w])

\* a tick of each worker has raised, neither worker was stopped, and both
\* loops have slept and started their next tick
C30_Witness ==
    /\ \A w \in Workers : life.raised[w] = 1 /\ running[w] /\ life.stopped[w] = "no"
    /\ ~life.shutdown
    /\ pc = "tick"
    /\ last.op = "wake"
    /\ rpc = "tick"
    /\ req.op = "wake"

\* the step of the shutdown handler
ShutdownStep == ~life.shutdown /\ life'.shutdown

\* C23: once both worker loops have been started, the shutdown handler leaves
\* the running flag of both workers false, and from then on neither loop
\* starts another tick (no step takes a loop from sleeping to a tick)
C23_StoppedAtShutdown ==
    /\ [][ (/\ ShutdownStep
            /\ \A w \in Workers : Position(w) \notin {"idle", "created"})
           => \A w \in Workers : ~running'[w] ]_vars
    /\ [][ \A w \in Workers :
             (/\ life.shutdown
              /\ life.stopped["deletion_queue"] \notin {"no", "created"}
              /\ Position(w) = "sleeping")
             => Position(w)' \in {"sleeping", "exited"} ]_vars

\* C33: a stop_background_worker call that comes after the task of a worker
\* was created and before its body first ran is not overwritten: no step
\* taken after such a stop sets the running flag of that worker (so its loop
\* ends at the first while test)
C33_StopNotOverwritten ==
    [][ \A w \in Workers : life.early[w] => ~running'[w] ]_vars

----------------------------------------------------------------------------
(* Properties of two instances on one queue *)

\* C26: nothing claims an entry before it is processed: the SELECT of an
\* instance writes nothing to the table and returns every due entry (up to
\* the limit), those the other instance has fetched and not yet attempted
\* included, and each instance invokes the gateway for every record of its
\* batch, whatever the other instance did with the entry in the meantime;
\* so the same due entry is attempted by both within overlapping ticks
C26_NoClaimBeforeProcessing ==
    [][ /\ (peer.pc = "tick" /\ peer'.pc = "processing") =>
              /\ queue' = queue
              /\ Len(peer'.pending) = Min(Cardinality(DueIds(queue, now)), BatchLimit)
              /\ \A k \in 1..Len(pending) :
                    (pc = "processing" /\ pending[k].id \in DueIds(queue, now)) =>
                      \E j \in 1..Len(peer'.pending) : peer'.pending[j].id = pending[k].id
        /\ (pc = "tick" /\ pc' = "processing") =>
              /\ queue' = queue
              /\ \A k \in 1..Len(peer.pending) :
                    (peer.pc = "processing" /\ peer.pending[k].id \in DueIds(queue, now)) =>
                      \E j \in 1..Len(pending') : pending'[j].id = peer.pending[k].id
        /\ (peer.pc = "processing" /\ peer.pending # <<>> /\ peer' # peer) =>
              /\ peer'.last.op = "attempt"
              /\ peer'.last.id = Head(peer.pending).id
              /\ peer'.last.id \in DOMAIN queue' =>
                    calls'[peer'.last.id] = calls[peer'.last.id] + 1
        /\ (pc = "processing" /\ pending # <<>> /\ pending' # pending) =>
              /\ last'.op = "attempt"
              /\ last'.id = Head(pending).id
              /\ last'.id \in DOMAIN queue' =>
                    calls'[last'.id] = calls[last'.id] + 1 ]_vars

\* both instances are in a tick, both have invoked the gateway delete for
\* the same entry, which both had fetched fresh, and the entry records one
\* attempt for the two calls
C26_Witness ==
    /\ pc = "processing"
    /\ peer.pc = "processing"
    /\ last.op = "attempt"
    /\ peer.last.op = "attempt"
    /\ peer.last.id = last.id
    /\ peer.last.attempt_count = 1
    /\ last.attempt_count = 1
    /\ last.id \in DOMAIN queue
    /\ calls[last.id] = 2
    /\ queue[last.id].attempt_count = 1

====
